---- MODULE Spec2Model ----
(***************************************************************************)
(* Model of librootme: the page envelopes (paged.py), the rel-link         *)
(* resolver and traversal drivers (api.py) and the keyed collection        *)
(* decoder (datamodel.py).                                                 *)
(*                                                                         *)
(* Python strings that the code inspects character by character (integer   *)
(* strings, query keys) are sequences of one-character strings.  A URL is  *)
(* a record of its raw components; split_url and parse_qsl do to it what   *)
(* urllib does.  A Python exception is a value with a non-empty err field. *)
(***************************************************************************)
EXTENDS Integers, Sequences, FiniteSets, TLC

VARIABLES
    call,      \* pure-function harness: name of the function applied
    input,     \* pure-function harness: its argument
    output,    \* pure-function harness: its result, once applied
    server,    \* the remote API: pages behind the fetch capability
    op,        \* the driver or single-step operation the consumer runs
    start,     \* the starting envelope handed to it
    variant,   \* the record class the starting envelope was decoded with
    cur,       \* the generator's local paged_item / paged_list
    pc,        \* position of the generator / coroutine
    elemIdx,   \* iter_list_elements: index of the next element of cur
    inflight,  \* the set of outstanding fetches (api calls awaited)
    pulls,     \* number of times the consumer asked the generator for more
    fetched,   \* log of the requests handed to the fetch capability
    yielded,   \* log of the envelopes yielded to the consumer
    elems,     \* log of the records yielded by iter_list_elements
    result     \* value or exception a single-step call returned

pureVars == <<call, input, output>>
travVars ==
    <<server, op, start, variant, cur, pc, elemIdx, inflight, pulls, fetched, yielded, elems,
      result>>
vars ==
    <<call, input, output, server, op, start, variant, cur, pc, elemIdx, inflight, pulls, fetched,
      yielded, elems, result>>

----------------------------------------------------------------------------
(* Bounds *)

MaxPages == 3      \* pages the remote API holds
MaxItems == 2      \* records per page
MaxQuery == 2      \* query parameters of a rel link (cursor extraction)
MaxDict == 3       \* keys of a keyed collection (decoder, slicing)
MaxFetches == 4    \* fetches a consumer lets one traversal make
MaxRels == 3       \* rel-link entries of a raw paged response
MaxStr == 3        \* characters of an integer-as-string wire value
MaxNested == 2     \* elements of a collection nested in a record
MaxCased == 2      \* characters of a phrase whose case differs from the others

----------------------------------------------------------------------------
(* Sequences *)

RECURSIVE SeqsUpTo(_, _)
SeqsUpTo(S, n) ==
    IF n = 0 THEN {<<>>}
    ELSE SeqsUpTo(S, n - 1) \cup {Append(s, x) : s \in SeqsUpTo(S, n - 1), x \in S}

----------------------------------------------------------------------------
(* Python str and int() *)

Digits == <<"0", "1", "2", "3", "4", "5", "6", "7", "8", "9">>

IsDigit(c) == \E i \in 1..10 : Digits[i] = c

DigitVal(c) == (CHOOSE i \in 1..10 : Digits[i] = c) - 1

IsSpace(c) == c \in {" ", "\t", "\n"}

RECURSIVE LStrip(_)
LStrip(s) == IF s # <<>> /\ IsSpace(Head(s)) THEN LStrip(Tail(s)) ELSE s

RECURSIVE RStrip(_)
RStrip(s) ==
    IF s # <<>> /\ IsSpace(s[Len(s)]) THEN RStrip(SubSeq(s, 1, Len(s) - 1)) ELSE s

(* str.startswith *)
StartsWith(s, prefix) ==
    /\ Len(s) >= Len(prefix)
    /\ SubSeq(s, 1, Len(prefix)) = prefix

(* digits with single underscores between them, as int() accepts *)
IsIntBody(b) ==
    /\ b # <<>>
    /\ IsDigit(b[1])
    /\ IsDigit(b[Len(b)])
    /\ \A i \in 1..Len(b) : IsDigit(b[i]) \/ b[i] = "_"
    /\ \A i \in 1..(Len(b) - 1) : ~(b[i] = "_" /\ b[i + 1] = "_")

RECURSIVE BodyVal(_, _)
BodyVal(b, acc) ==
    IF b = <<>> THEN acc
    ELSE IF Head(b) = "_" THEN BodyVal(Tail(b), acc)
    ELSE BodyVal(Tail(b), 10 * acc + DigitVal(Head(b)))

(* the builtin int(str): surrounding whitespace, an optional sign and      *)
(* underscore separators are accepted; anything else raises ValueError     *)
PyInt(s) ==
    LET t == RStrip(LStrip(s))
        signed == t # <<>> /\ Head(t) \in {"+", "-"}
        body == IF signed THEN Tail(t) ELSE t
    IN  IF ~IsIntBody(body) THEN [err |-> "ValueError", val |-> 0]
        ELSE IF signed /\ Head(t) = "-" THEN [err |-> "", val |-> 0 - BodyVal(body, 0)]
        ELSE [err |-> "", val |-> BodyVal(body, 0)]

parse_int(value) == PyInt(value)

(* str(n) for the small naturals the remote API uses as ids and offsets *)
RECURSIVE IntToStr(_)
IntToStr(n) == IF n < 10 THEN <<Digits[n + 1]>> ELSE IntToStr(n \div 10) \o <<Digits[(n % 10) + 1]>>

----------------------------------------------------------------------------
(* URLs *)

API_URL == [scheme |-> "https", netloc |-> "api.www.root-me.org"]

(* str.lower() on the schemes that occur *)
Lower(s) == IF s = "HTTPS" THEN "https" ELSE IF s = "HTTP" THEN "http" ELSE s

(* urlsplit: the scheme is lower-cased, the other components are kept *)
split_url(value) ==
    [scheme |-> Lower(value.scheme), netloc |-> value.netloc,
     path |-> value.path, query |-> value.query]

(* urllib parse_qsl with its defaults: a parameter with a blank value is   *)
(* dropped (keep_blank_values=False), the others keep their order          *)
RECURSIVE parse_qsl(_)
parse_qsl(qs) ==
    IF qs = <<>> THEN <<>>
    ELSE IF Head(qs)[2] = <<>> THEN parse_qsl(Tail(qs))
    ELSE <<Head(qs)>> \o parse_qsl(Tail(qs))

parse_url_qsl(value) == parse_qsl(split_url(value).query)

----------------------------------------------------------------------------
(* Domain records (datamodel.py) *)

None == [none |-> TRUE]

(* dict[key] on a raw field mapping *)
HasKey(data, k) == k \in DOMAIN data

(* str methods / builtins returning [err, val] for one field of a mapping  *)
KeyError == [err |-> "KeyError", val |-> None]

(* data[k] *)
StrField(data, k) == IF ~HasKey(data, k) THEN KeyError ELSE [err |-> "", val |-> data[k]]

(* parse_int(data[k]) *)
IntField(data, k) == IF ~HasKey(data, k) THEN KeyError ELSE parse_int(data[k])

(* utils.parse_bool *)
parse_bool(value) == [err |-> "", val |-> value = "true"]

BoolField(data, k) == IF ~HasKey(data, k) THEN KeyError ELSE parse_bool(data[k])

(* constants.py: the values of the StrEnum / IntEnum classes *)
Language == {"fr", "en", "de", "es", "ru", "zh"}

AccountType ==
    {"0minirezo", "5pre", "1comite", "6forum", "nouveau", "aconfirmer", "5cheater",
     "5leaker", "5poubelle", "5banned"}

Rank == {"visitor", "curious", "trainee", "insider", "enthusiast", "hacker", "elite", "legend"}

CategoryLocalized ==
    {189, 203, 69, 18, 208, 17, 70, 182, 67, 16, 68,
     191, 204, 158, 160, 209, 159, 157, 183, 156, 155, 154,
     217, 218, 228, 229, 230, 231, 235, 232, 236, 234, 233,
     251, 252, 253, 254, 255, 256, 257, 258, 259, 260, 261,
     327, 329, 323, 325, 330, 324, 322, 326, 321, 320, 319,
     371, 376, 359, 361, 377, 360, 358, 370, 357, 356, 355}

(* Enum(value): the member with that value, ValueError without one *)
EnumCall_any(members, value) == [err |-> "", val |-> value]

EnumCall(members, value) ==
    IF value \in members THEN [err |-> "", val |-> value] ELSE [err |-> "ValueError", val |-> None]

EnumField(members, data, k) ==
    IF ~HasKey(data, k) THEN KeyError ELSE EnumCall(members, data[k])

(* CategoryLocalized(parse_int(data[k])) *)
CategoryField(data, k) ==
    IF ~HasKey(data, k) THEN KeyError
    ELSE IF parse_int(data[k]).err # "" THEN [err |-> "ValueError", val |-> None]
    ELSE EnumCall(CategoryLocalized, parse_int(data[k]).val)

(* html.unescape on a text given as a sequence of plain characters and     *)
(* character references                                                    *)
HtmlEntities == {"&amp;", "&lt;", "&gt;", "&#39;"}

HtmlChar(ref) ==
    IF ref = "&amp;" THEN "&"
    ELSE IF ref = "&lt;" THEN "<"
    ELSE IF ref = "&gt;" THEN ">"
    ELSE "'"

unescape(text) ==
    [i \in 1..Len(text) |-> IF text[i] \in HtmlEntities THEN HtmlChar(text[i]) ELSE text[i]]

TextField(data, k) ==
    IF ~HasKey(data, k) THEN KeyError ELSE [err |-> "", val |-> unescape(data[k])]

IsLeap(y) == (y % 4 = 0 /\ y % 100 # 0) \/ y % 400 = 0

DaysIn(y, m) ==
    IF m = 2 THEN (IF IsLeap(y) THEN 29 ELSE 28)
    ELSE IF m \in {4, 6, 9, 11} THEN 30
    ELSE 31

(* two decimal digits at s[i], s[i + 1] *)
TwoDigits(s, i) == IsDigit(s[i]) /\ IsDigit(s[i + 1])

TwoVal(s, i) == 10 * DigitVal(s[i]) + DigitVal(s[i + 1])

(* datetime.fromisoformat on YYYY-MM-DD, optionally followed by one        *)
(* separator character and HH, HH:MM or HH:MM:SS                           *)
parse_date(value) ==
    LET n == Len(value)
        s == value
        dateOk ==
            /\ n >= 10
            /\ TwoDigits(s, 1) /\ TwoDigits(s, 3) /\ s[5] = "-"
            /\ TwoDigits(s, 6) /\ s[8] = "-" /\ TwoDigits(s, 9)
            /\ 100 * TwoVal(s, 1) + TwoVal(s, 3) >= 1
            /\ TwoVal(s, 6) \in 1..12
            /\ TwoVal(s, 9) \in 1..DaysIn(100 * TwoVal(s, 1) + TwoVal(s, 3), TwoVal(s, 6))
        timeOk ==
            /\ n \in {10, 13, 16, 19}
            /\ n >= 13 => TwoDigits(s, 12) /\ TwoVal(s, 12) < 24
            /\ n >= 16 => s[14] = ":" /\ TwoDigits(s, 15) /\ TwoVal(s, 15) < 60
            /\ n >= 19 => s[17] = ":" /\ TwoDigits(s, 18) /\ TwoVal(s, 18) < 60
    IN  IF dateOk /\ timeOk
        THEN [err |-> "",
              val |-> [year |-> 100 * TwoVal(s, 1) + TwoVal(s, 3),
                       month |-> TwoVal(s, 6), day |-> TwoVal(s, 9),
                       hour |-> IF n >= 13 THEN TwoVal(s, 12) ELSE 0,
                       minute |-> IF n >= 16 THEN TwoVal(s, 15) ELSE 0,
                       second |-> IF n >= 19 THEN TwoVal(s, 18) ELSE 0]]
        ELSE [err |-> "ValueError", val |-> None]

DateField(data, k) == IF ~HasKey(data, k) THEN KeyError ELSE parse_date(data[k])

(* the exception of the first keyword argument whose evaluation raises *)
FirstErr(rs) ==
    IF \A i \in 1..Len(rs) : rs[i].err = "" THEN ""
    ELSE rs[CHOOSE i \in 1..Len(rs) :
                /\ rs[i].err # ""
                /\ \A j \in 1..(i - 1) : rs[j].err = ""].err

(* A keyed collection (DictList) is a Python dict: its (key, value) pairs  *)
(* in insertion order, the keys distinct.                                  *)
DictValues(dictlist) == [i \in 1..Len(dictlist) |-> dictlist[i][2]]

(* AuthorShort.from_dict *)
AuthorShort_from_dict(data) ==
    IF ~HasKey(data, "id_auteur") THEN [err |-> "KeyError", rec |-> None]
    ELSE IF parse_int(data["id_auteur"]).err # "" THEN [err |-> "ValueError", rec |-> None]
    ELSE IF ~HasKey(data, "nom") THEN [err |-> "KeyError", rec |-> None]
    ELSE [err |-> "",
          rec |-> [variant |-> "AuthorShort",
                   id_auteur |-> parse_int(data["id_auteur"]).val,
                   nom |-> data["nom"]]]

(* Solution.from_dict *)
Solution_from_dict(data) ==
    IF ~HasKey(data, "id_solution") THEN [err |-> "KeyError", rec |-> None]
    ELSE IF parse_int(data["id_solution"]).err # "" THEN [err |-> "ValueError", rec |-> None]
    ELSE IF ~HasKey(data, "url_solution") THEN [err |-> "KeyError", rec |-> None]
    ELSE [err |-> "",
          rec |-> [variant |-> "Solution",
                   id_solution |-> parse_int(data["id_solution"]).val,
                   url_solution |-> data["url_solution"]]]

(* Difficulty (constants.py).  A phrase is a sequence of characters; the    *)
(* accented letters are the characters "e_grave" and "E_GRAVE".            *)
UpperLetters ==
    <<"A", "B", "C", "D", "E", "F", "G", "H", "I", "J", "K", "L", "M", "N", "O", "P", "Q",
      "R", "S", "T", "U", "V", "W", "X", "Y", "Z", "E_GRAVE">>

LowerLetters ==
    <<"a", "b", "c", "d", "e", "f", "g", "h", "i", "j", "k", "l", "m", "n", "o", "p", "q",
      "r", "s", "t", "u", "v", "w", "x", "y", "z", "e_grave">>

(* str.lower() and str.upper(), character by character *)
LowerChar(c) ==
    IF \E i \in 1..Len(UpperLetters) : UpperLetters[i] = c
    THEN LowerLetters[CHOOSE i \in 1..Len(UpperLetters) : UpperLetters[i] = c]
    ELSE c

UpperChar(c) ==
    IF \E i \in 1..Len(LowerLetters) : LowerLetters[i] = c
    THEN UpperLetters[CHOOSE i \in 1..Len(LowerLetters) : LowerLetters[i] = c]
    ELSE c

LowerStr(s) == [i \in 1..Len(s) |-> LowerChar(s[i])]

(* utils.strip_tags: the text outside the <...> tags *)
RECURSIVE StripTags(_, _)
StripTags(s, inTag) ==
    IF s = <<>> THEN <<>>
    ELSE IF inTag THEN StripTags(Tail(s), Head(s) # ">")
    ELSE IF Head(s) = "<" THEN StripTags(Tail(s), TRUE)
    ELSE <<Head(s)>> \o StripTags(Tail(s), FALSE)

strip_tags(html) == StripTags(html, FALSE)

DifficultyLevels == <<"VERY_EASY", "EASY", "MEDIUM", "HARD", "VERY_HARD">>

(* the member values of the enum, by level *)
DifficultyValue ==
    <<<<"T", "r", "e_grave", "s", " ", "f", "a", "c", "i", "l", "e">>,
      <<"F", "a", "c", "i", "l", "e">>,
      <<"M", "o", "y", "e", "n">>,
      <<"D", "i", "f", "f", "i", "c", "i", "l", "e">>,
      <<"T", "r", "e_grave", "s", " ", "d", "i", "f", "f", "i", "c", "i", "l", "e">>>>

(* DIFFICULTY_NAMES: per language, in insertion order, the names by level *)
DIFFICULTY_NAMES ==
    <<<<<<"T", "r", "e_grave", "s", " ", "f", "a", "c", "i", "l", "e">>,
        <<"F", "a", "c", "i", "l", "e">>,
        <<"M", "o", "y", "e", "n">>,
        <<"D", "i", "f", "f", "i", "c", "i", "l", "e">>,
        <<"T", "r", "e_grave", "s", " ", "d", "i", "f", "f", "i", "c", "i", "l", "e">>>>,
      <<<<"V", "e", "r", "y", " ", "e", "a", "s", "y">>,
        <<"E", "a", "s", "y">>,
        <<"M", "e", "d", "i", "u", "m">>,
        <<"H", "a", "r", "d">>,
        <<"V", "e", "r", "y", " ", "h", "a", "r", "d">>>>,
      <<<<"S", "e", "h", "r", " ", "e", "i", "n", "f", "a", "c", "h">>,
        <<"E", "i", "n", "f", "a", "c", "h">>,
        <<"M", "i", "t", "t", "e", "l">>,
        <<"S", "c", "h", "w", "e", "r">>,
        <<"S", "e", "h", "r", " ", "S", "c", "h", "w", "e", "r">>>>>>

(* Difficulty(value): the member with that value, ValueError without one *)
Difficulty_call(value) ==
    IF \E d \in 1..Len(DifficultyValue) : DifficultyValue[d] = value
    THEN [err |-> "", val |-> DifficultyLevels[CHOOSE d \in 1..Len(DifficultyValue) :
                                                  DifficultyValue[d] = value]]
    ELSE [err |-> "ValueError", val |-> None]

(* the (language, level) pairs in the order the two loops visit them *)
NamePairs == [p \in 1..15 |-> <<((p - 1) \div 5) + 1, ((p - 1) % 5) + 1>>]

NameAt(p) == DIFFICULTY_NAMES[NamePairs[p][1]][NamePairs[p][2]]

(* Difficulty.from_str comparing the phrase without lower-casing it *)
Difficulty_from_str_cased(value) ==
    LET value_str == strip_tags(value)
        hits == {p \in 1..15 : value_str = NameAt(p)}
    IN  IF hits # {}
        THEN [err |-> "",
              val |-> DifficultyLevels[NamePairs[CHOOSE p \in hits : \A q \in hits : p <= q][2]]]
        ELSE Difficulty_call(value_str)

(* Difficulty.from_str *)
Difficulty_from_str(value) ==
    LET value_str == LowerStr(strip_tags(value))
        hits == {p \in 1..15 : value_str = LowerStr(NameAt(p))}
    IN  IF hits # {}
        THEN [err |-> "",
              val |-> DifficultyLevels[NamePairs[CHOOSE p \in hits : \A q \in hits : p <= q][2]]]
        ELSE Difficulty_call(value_str)

DifficultyField(data, k) ==
    IF ~HasKey(data, k) THEN KeyError ELSE Difficulty_from_str(data[k])

(* the dataclass constructors, given the evaluated keyword arguments f in  *)
(* the order of the call: the first exception among them leaves from_dict  *)
ChallengeVeryShort_init(f) ==
    IF FirstErr(f) # "" THEN [err |-> FirstErr(f), rec |-> None]
    ELSE [err |-> "",
          rec |-> [variant |-> "ChallengeVeryShort", id_challenge |-> f[1].val,
                   titre |-> f[2].val, url_challenge |-> f[3].val]]

(* ChallengeVeryShort.from_dict *)
ChallengeVeryShort_from_dict(data) ==
    ChallengeVeryShort_init(<<IntField(data, "id_challenge"), TextField(data, "titre"),
                              StrField(data, "url_challenge")>>)

ChallengeShort_init(f) ==
    IF FirstErr(f) # "" THEN [err |-> FirstErr(f), rec |-> None]
    ELSE [err |-> "",
          rec |-> [variant |-> "ChallengeShort", id_challenge |-> f[1].val,
                   id_rubrique |-> f[2].val, titre |-> f[3].val, lang |-> f[4].val,
                   date_publication |-> f[5].val, maj |-> f[6].val]]

(* ChallengeShort.from_dict *)
ChallengeShort_from_dict(data) ==
    ChallengeShort_init(<<IntField(data, "id_challenge"), CategoryField(data, "id_rubrique"),
                          TextField(data, "titre"), EnumField(Language, data, "lang"),
                          DateField(data, "date_publication"), DateField(data, "maj")>>)

ValidationAuthor_init(f) ==
    IF FirstErr(f) # "" THEN [err |-> FirstErr(f), rec |-> None]
    ELSE [err |-> "",
          rec |-> [variant |-> "ValidationAuthor", id_challenge |-> f[1].val,
                   titre |-> f[2].val, id_rubrique |-> f[3].val, date |-> f[4].val]]

(* ValidationAuthor.from_dict *)
ValidationAuthor_from_dict(data) ==
    ValidationAuthor_init(<<IntField(data, "id_challenge"), TextField(data, "titre"),
                            CategoryField(data, "id_rubrique"), DateField(data, "date")>>)

ValidationChallenge_init(f) ==
    IF FirstErr(f) # "" THEN [err |-> FirstErr(f), rec |-> None]
    ELSE [err |-> "",
          rec |-> [variant |-> "ValidationChallenge", id_auteur |-> f[1].val,
                   date |-> f[2].val]]

(* ValidationChallenge.from_dict *)
ValidationChallenge_from_dict(data) ==
    ValidationChallenge_init(<<IntField(data, "id_auteur"), DateField(data, "date")>>)

(* A JSON scalar that is an integer or a string on the wire *)
JInt(n) == [int |-> n]
JStr(s) == [str |-> s]

(* Python truthiness of such a scalar *)
Truthy(x) == x # JInt(0) /\ x # JStr("")

(* data["position"] or None *)
PositionField(data) ==
    IF ~HasKey(data, "position") THEN KeyError
    ELSE [err |-> "", val |-> IF Truthy(data["position"]) THEN data["position"] ELSE None]

(* Rank(data["rang"]) if "rang" in data else None *)
RankField(data) ==
    IF ~HasKey(data, "rang") THEN [err |-> "", val |-> None]
    ELSE EnumCall(Rank, data["rang"])

(* cls.from_dict for the classes of nested records *)
nested_from_dict(cls, data) ==
    IF cls = "AuthorShort" THEN AuthorShort_from_dict(data)
    ELSE IF cls = "Solution" THEN Solution_from_dict(data)
    ELSE IF cls = "ChallengeVeryShort" THEN ChallengeVeryShort_from_dict(data)
    ELSE IF cls = "ValidationAuthor" THEN ValidationAuthor_from_dict(data)
    ELSE ValidationChallenge_from_dict(data)

(* a comprehension that builds its list back to front *)
RECURSIVE DecodeEach_reversed(_, _)
DecodeEach_reversed(cls, vals) ==
    IF vals = <<>> THEN [err |-> "", val |-> <<>>]
    ELSE IF nested_from_dict(cls, Head(vals)).err # ""
    THEN [err |-> nested_from_dict(cls, Head(vals)).err, val |-> <<>>]
    ELSE IF DecodeEach_reversed(cls, Tail(vals)).err # ""
    THEN [err |-> DecodeEach_reversed(cls, Tail(vals)).err, val |-> <<>>]
    ELSE [err |-> "",
          val |-> DecodeEach_reversed(cls, Tail(vals)).val
                  \o <<nested_from_dict(cls, Head(vals)).rec>>]

(* [cls.from_dict(x) for x in vals]: the first exception leaves the        *)
(* comprehension                                                           *)
RECURSIVE DecodeEach(_, _)
DecodeEach(cls, vals) ==
    IF vals = <<>> THEN [err |-> "", val |-> <<>>]
    ELSE IF nested_from_dict(cls, Head(vals)).err # ""
    THEN [err |-> nested_from_dict(cls, Head(vals)).err, val |-> <<>>]
    ELSE IF DecodeEach(cls, Tail(vals)).err # ""
    THEN [err |-> DecodeEach(cls, Tail(vals)).err, val |-> <<>>]
    ELSE [err |-> "",
          val |-> <<nested_from_dict(cls, Head(vals)).rec>> \o DecodeEach(cls, Tail(vals)).val]

(* [cls.from_dict(x) for x in data[k]] *)
ListField(cls, data, k) ==
    IF ~HasKey(data, k) THEN KeyError ELSE DecodeEach(cls, data[k])

(* [cls.from_dict(x) for x in data[k].values()] *)
DictListField(cls, data, k) ==
    IF ~HasKey(data, k) THEN KeyError ELSE DecodeEach(cls, DictValues(data[k]))

Author_init(f) ==
    IF FirstErr(f) # "" THEN [err |-> FirstErr(f), rec |-> None]
    ELSE [err |-> "",
          rec |-> [variant |-> "Author", id_auteur |-> f[1].val, nom |-> f[2].val,
                   statut |-> f[3].val, logo_url |-> f[4].val, score |-> f[5].val,
                   position |-> f[6].val, rang |-> f[7].val, membre |-> f[8].val,
                   challenges |-> f[9].val, solutions |-> f[10].val,
                   validations |-> f[11].val]]

(* Author.from_dict *)
Author_from_dict(data) ==
    Author_init(<<IntField(data, "id_auteur"), StrField(data, "nom"),
                  EnumField(AccountType, data, "statut"), StrField(data, "logo_url"),
                  IntField(data, "score"), PositionField(data), RankField(data),
                  BoolField(data, "membre"),
                  ListField("ChallengeVeryShort", data, "challenges"),
                  ListField("Solution", data, "solutions"),
                  ListField("ValidationAuthor", data, "validations")>>)

Challenge_init(f) ==
    IF FirstErr(f) # "" THEN [err |-> FirstErr(f), rec |-> None]
    ELSE [err |-> "",
          rec |-> [variant |-> "Challenge", titre |-> f[1].val, rubrique |-> f[2].val,
                   soustitre |-> f[3].val, score |-> f[4].val,
                   index_challenge |-> f[5].val, id_rubrique |-> f[6].val,
                   id_trad |-> f[7].val, url_challenge |-> f[8].val,
                   date_publication |-> f[9].val, maj |-> f[10].val,
                   difficulte |-> f[11].val, auteurs |-> f[12].val,
                   validations |-> f[13].val]]

(* Challenge.from_dict *)
Challenge_from_dict(data) ==
    Challenge_init(<<TextField(data, "titre"), StrField(data, "rubrique"),
                     TextField(data, "soustitre"), IntField(data, "score"),
                     StrField(data, "index_challenge"), CategoryField(data, "id_rubrique"),
                     IntField(data, "id_trad"), StrField(data, "url_challenge"),
                     DateField(data, "date_publication"), DateField(data, "maj"),
                     DifficultyField(data, "difficulte"),
                     DictListField("AuthorShort", data, "auteurs"),
                     DictListField("ValidationChallenge", data, "validations")>>)

RecordClasses ==
    {"AuthorShort", "Author", "ChallengeVeryShort", "ChallengeShort", "Challenge",
     "Solution", "ValidationAuthor", "ValidationChallenge"}

(* the classes a record of class cls is an instance of *)
ClassesOf(cls) ==
    {cls, "TypedDictDataclass", "object"}
    \cup (IF cls \in {"Author", "Challenge"} THEN {"PrettyPrintable"} ELSE {})

(* isinstance(self, target_type) *)
IsInstance(self, target_type) == target_type \in ClassesOf(self.variant)

(* a narrowing that turns a full author into a short author *)
as_type_lossy(self, target_type) ==
    IF IsInstance(self, target_type) THEN [err |-> "", val |-> self]
    ELSE IF self.variant = "Author" /\ target_type = "AuthorShort"
    THEN [err |-> "",
          val |-> [variant |-> "AuthorShort", id_auteur |-> self.id_auteur, nom |-> self.nom]]
    ELSE [err |-> "TypeError", val |-> None]

(* TypedDictDataclass.as_type *)
as_type(self, target_type) ==
    IF IsInstance(self, target_type) THEN [err |-> "", val |-> self]
    ELSE [err |-> "TypeError", val |-> None]

(* the record classes the traversals are run with *)
Variants == {"AuthorShort", "Solution"}

(* cls.from_dict for the classes of Variants *)
from_dict(cls, data) ==
    IF cls = "AuthorShort" THEN AuthorShort_from_dict(data)
    ELSE Solution_from_dict(data)

(* cls.from_dict for every record class *)
record_from_dict(cls, data) ==
    IF cls = "ChallengeVeryShort" THEN ChallengeVeryShort_from_dict(data)
    ELSE IF cls = "ChallengeShort" THEN ChallengeShort_from_dict(data)
    ELSE IF cls = "ValidationAuthor" THEN ValidationAuthor_from_dict(data)
    ELSE IF cls = "ValidationChallenge" THEN ValidationChallenge_from_dict(data)
    ELSE IF cls = "Author" THEN Author_from_dict(data)
    ELSE IF cls = "Challenge" THEN Challenge_from_dict(data)
    ELSE from_dict(cls, data)

(* a decode of the values that leaves out the ones that do not decode *)
RECURSIVE DecodeAll_skip(_, _)
DecodeAll_skip(cls, vals) ==
    IF vals = <<>> THEN [err |-> "", list |-> <<>>]
    ELSE LET h == from_dict(cls, Head(vals))
             t == DecodeAll_skip(cls, Tail(vals))
         IN  IF h.err # "" THEN t ELSE [err |-> "", list |-> <<h.rec>> \o t.list]

RECURSIVE DecodeAll(_, _)
DecodeAll(cls, vals) ==
    IF vals = <<>> THEN [err |-> "", list |-> <<>>]
    ELSE LET h == from_dict(cls, Head(vals))
         IN  IF h.err # "" THEN [err |-> h.err, list |-> <<>>]
             ELSE LET t == DecodeAll(cls, Tail(vals))
                  IN  IF t.err # "" THEN [err |-> t.err, list |-> <<>>]
                      ELSE [err |-> "", list |-> <<h.rec>> \o t.list]

(* type(record) *)
TypeOf(rec) == rec.variant

(* insertion into a list kept sorted by the integer value of the key *)
RECURSIVE InsertByKey(_, _)
InsertByKey(p, sorted) ==
    IF sorted = <<>> THEN <<p>>
    ELSE IF PyInt(p[1]).val < PyInt(Head(sorted)[1]).val THEN <<p>> \o sorted
    ELSE <<Head(sorted)>> \o InsertByKey(p, Tail(sorted))

RECURSIVE SortByKey(_)
SortByKey(d) == IF d = <<>> THEN <<>> ELSE InsertByKey(Head(d), SortByKey(Tail(d)))

(* from_dictlist decoding the values in ascending key order *)
from_dictlist_sorted(cls, dictlist) == DecodeAll(cls, DictValues(SortByKey(dictlist)))

(* TypedDictDataclass.from_dictlist *)
from_dictlist(cls, dictlist) == DecodeAll(cls, DictValues(dictlist))

----------------------------------------------------------------------------
(* Page envelopes (paged.py) *)

Rel_PREV == "previous"
Rel_NEXT == "next"
RelTypes == {Rel_PREV, Rel_NEXT}

NoRels == [r \in {} |-> None]

(* a fold of the entries in which the first entry of a direction is kept   *)
RECURSIVE RelsDict_first(_, _)
RelsDict_first(rels, acc) ==
    IF rels = <<>> THEN acc
    ELSE RelsDict_first(Tail(rels),
                        [r \in (DOMAIN acc) \cup {Head(rels).rel} |->
                            IF r \in DOMAIN acc THEN acc[r] ELSE Head(rels).href])

(* {rel["rel"]: rel["href"] for rel in rels}: a later entry of the same    *)
(* direction replaces the earlier one                                      *)
RECURSIVE RelsDict(_, _)
RelsDict(rels, acc) ==
    IF rels = <<>> THEN acc
    ELSE RelsDict(Tail(rels),
                  [r \in (DOMAIN acc) \cup {Head(rels).rel} |->
                      IF r = Head(rels).rel THEN Head(rels).href ELSE acc[r]])

(* PagedData.__init__ via PagedItem *)
PagedItem(data, rels) == [shape |-> "item", data |-> data, rels |-> rels]

(* PagedList.__init__: list(data) *)
PagedList(data, rels) == [shape |-> "list", data |-> data, rels |-> rels]

PagedItem_from_rawrels(data, rels) == PagedItem(data, RelsDict(rels, NoRels))

PagedList_from_rawrels(data, rels) == PagedList(data, RelsDict(rels, NoRels))

(* PagedItem.from_pagedresult after target_type.from_dict(data): an        *)
(* exception of the decode leaves the method                               *)
from_pagedresult_decoded(d, rels) ==
    IF d.err # "" THEN [err |-> d.err, page |-> None]
    ELSE [err |-> "", page |-> PagedItem_from_rawrels(d.rec, rels)]

(* PagedItem.from_pagedresult: result = [payload, relLinkEntry*] *)
from_pagedresult(res, target_type) ==
    from_pagedresult_decoded(from_dict(target_type, res.payload), res.rels)

(* PagedList.from_pagedresults *)
from_pagedresults(res, target_type) ==
    LET d == from_dictlist(target_type, res.payload)
    IN  IF d.err # "" THEN [err |-> d.err, page |-> None]
        ELSE [err |-> "", page |-> PagedList_from_rawrels(d.list, res.rels)]

(* PagedData.rel: dict.get *)
rel(self, r) == IF r \in DOMAIN self.rels THEN self.rels[r] ELSE None

(* PagedData.rel_split *)
rel_split(self, r) == IF rel(self, r) = None THEN None ELSE split_url(rel(self, r))

debut_ == <<"d", "e", "b", "u", "t", "_">>

(* [int(v) for k, v in query if k.startswith("debut_")]: the first value   *)
(* int() rejects raises                                                    *)
RECURSIVE StartValues(_)
StartValues(query) ==
    IF query = <<>> THEN [err |-> "", vals |-> <<>>]
    ELSE IF ~StartsWith(Head(query)[1], debut_) THEN StartValues(Tail(query))
    ELSE LET h == PyInt(Head(query)[2])
             t == StartValues(Tail(query))
         IN  IF h.err # "" THEN [err |-> h.err, vals |-> <<>>]
             ELSE IF t.err # "" THEN [err |-> t.err, vals |-> <<>>]
             ELSE [err |-> "", vals |-> <<h.val>> \o t.vals]

(* a cursor extraction that reads the parameter named debut only *)
get_rel_start_debut_only(self, r) ==
    LET url == rel(self, r)
        sv == SelectSeq(parse_url_qsl(url), LAMBDA p : p[1] = <<"d", "e", "b", "u", "t">>)
    IN  IF url = None THEN [err |-> "", none |-> TRUE, val |-> 0]
        ELSE IF Len(sv) = 0 THEN [err |-> "", none |-> FALSE, val |-> 0]
        ELSE IF PyInt(sv[1][2]).err # "" THEN [err |-> "ValueError", none |-> FALSE, val |-> 0]
        ELSE [err |-> "", none |-> FALSE, val |-> PyInt(sv[1][2]).val]

(* PagedData.get_rel_start; none is TRUE where Python returns None *)
get_rel_start(self, r) ==
    LET url == rel(self, r)
        sv == StartValues(parse_url_qsl(url))
    IN  IF url = None THEN [err |-> "", none |-> TRUE, val |-> 0]
        ELSE IF sv.err # "" THEN [err |-> sv.err, none |-> FALSE, val |-> 0]
        ELSE IF Len(sv.vals) = 0 THEN [err |-> "", none |-> FALSE, val |-> 0]
        ELSE IF Len(sv.vals) > 1 THEN [err |-> "ValueError", none |-> FALSE, val |-> 0]
        ELSE [err |-> "", none |-> FALSE, val |-> sv.vals[1]]

(* list[a:b] with Python's index rules: a negative index counts from the  *)
(* end, an index outside the list is clamped                               *)
SliceIndex(i, n) == IF i < 0 THEN (IF i + n < 0 THEN 0 ELSE i + n) ELSE IF i > n THEN n ELSE i

PySlice(s, a, b) == SubSeq(s, SliceIndex(a, Len(s)) + 1, SliceIndex(b, Len(s)))

(* slicing that builds the new envelope without passing the links on *)
PagedList_getitem_slice_no_rels(self, a, b) ==
    [ret |-> PagedList(PySlice(self.data, a, b), NoRels), self |-> self]

(* slicing that cuts the list of the envelope itself down to the range *)
PagedList_getitem_slice_in_place(self, a, b) ==
    [ret |-> PagedList(PySlice(self.data, a, b), self.rels),
     self |-> PagedList(PySlice(self.data, a, b), self.rels)]

(* PagedList.__getitem__(slice(a, b)): the new envelope, and self after   *)
(* the call                                                                *)
PagedList_getitem_slice(self, a, b) ==
    [ret |-> PagedList(PySlice(self.data, a, b), self.rels), self |-> self]

(* PagedList.__getitem__(index: int): list indexing, a negative index      *)
(* counts from the end, an index outside the list raises IndexError        *)
PagedList_getitem(self, index) ==
    IF index >= Len(self.data) \/ index < 0 - Len(self.data)
    THEN [err |-> "IndexError", val |-> None]
    ELSE [err |-> "",
          val |-> self.data[(IF index < 0 THEN index + Len(self.data) ELSE index) + 1]]

(* PagedList.__len__ *)
PagedList_len(self) == Len(self.data)

(* PagedList.__contains__: value in self._data *)
PagedList_contains(self, value) == \E i \in 1..Len(self.data) : self.data[i] = value

(* PagedList.__iter__: the records the iterator hands out, in order *)
PagedList_iter(self) == self.data

(* a reverse iteration that hands out the records front to back *)
PagedList_reversed_forward(self) == self.data

(* PagedList.__reversed__: reversed(self._data) *)
PagedList_reversed(self) ==
    [i \in 1..Len(self.data) |-> self.data[Len(self.data) + 1 - i]]

----------------------------------------------------------------------------
(* Rel-link resolver (api.py) *)

(* str.lstrip("/") *)
RECURSIVE LStripSlash(_)
LStripSlash(s) == IF s # <<>> /\ Head(s) = "/" THEN LStripSlash(Tail(s)) ELSE s

(* the values of key k in a parsed query, in order *)
ValuesOf(k, qsl) ==
    LET ps == SelectSeq(qsl, LAMBDA p : p[1] = k)
    IN  [i \in 1..Len(ps) |-> ps[i][2]]

(* the keys of a parsed query in order of first occurrence *)
RECURSIVE FirstKeys(_, _)
FirstKeys(qsl, seen) ==
    IF qsl = <<>> THEN <<>>
    ELSE IF Head(qsl)[1] \in seen THEN FirstKeys(Tail(qsl), seen)
    ELSE <<Head(qsl)[1]>> \o FirstKeys(Tail(qsl), seen \cup {Head(qsl)[1]})

(* urllib parse_qs: a dict from each key to the list of its values *)
parse_qs(qs) ==
    LET qsl == parse_qsl(qs)
        keys == FirstKeys(qsl, {})
    IN  [i \in 1..Len(keys) |-> <<keys[i], ValuesOf(keys[i], qsl)>>]

(* RootMeAPI.api called with use_default_lang left at its default by a     *)
(* client constructed with lang="en": params["lang"] is set                *)
api_default_lang(endpoint, params) ==
    [endpoint |-> endpoint,
     params |-> SelectSeq(params, LAMBDA p : p[1] # <<"l", "a", "n", "g">>)
                \o <<<<(<<"l", "a", "n", "g">>), <<(<<"e", "n">>)>>>>>>]

(* RootMeAPI.api called with use_default_lang=False: the GET request the   *)
(* client sends, relative to its base_url                                  *)
api(endpoint, params) == [endpoint |-> endpoint, params |-> params]

(* get_rel_page comparing the host only *)
get_rel_page_request_host_only(paged_data, r) ==
    LET split == rel_split(paged_data, r)
    IN  IF split = None THEN [kind |-> "none", err |-> "", req |-> None]
        ELSE IF split.netloc # API_URL.netloc
             THEN [kind |-> "raise", err |-> "ValueError", req |-> None]
        ELSE [kind |-> "fetch", err |-> "",
              req |-> api(LStripSlash(split.path), parse_qs(split.query))]

(* RootMeAPI.get_rel_page up to the await: no link, a rejected link, or    *)
(* the request to send                                                     *)
get_rel_page_request(paged_data, r) ==
    LET split == rel_split(paged_data, r)
    IN  IF split = None THEN [kind |-> "none", err |-> "", req |-> None]
        ELSE IF [scheme |-> split.scheme, netloc |-> split.netloc] # API_URL
             THEN [kind |-> "raise", err |-> "ValueError", req |-> None]
        ELSE [kind |-> "fetch", err |-> "",
              req |-> api(LStripSlash(split.path), parse_qs(split.query))]

(* get_rel_page decoding every response as short authors *)
get_rel_page_decode_author(paged_data, res) ==
    IF paged_data.shape = "item"
    THEN from_pagedresult(res, "AuthorShort")
    ELSE IF paged_data.data = <<>> THEN [err |-> "IndexError", page |-> None]
    ELSE from_pagedresults(res, "AuthorShort")

(* get_rel_page decoding the response with the record class the traversal  *)
(* was started with, whatever paged_data holds                             *)
get_rel_page_decode_as_started(paged_data, res) ==
    IF paged_data.shape = "item"
    THEN from_pagedresult(res, variant)
    ELSE from_pagedresults(res, variant)

(* RootMeAPI.get_rel_page after the await: the response is decoded into    *)
(* the shape of paged_data with the type of its payload; data[0] of an     *)
(* empty list raises IndexError                                            *)
get_rel_page_decode(paged_data, res) ==
    IF paged_data.shape = "item"
    THEN from_pagedresult(res, TypeOf(paged_data.data))
    ELSE IF paged_data.data = <<>> THEN [err |-> "IndexError", page |-> None]
    ELSE from_pagedresults(res, TypeOf(paged_data.data[1]))

----------------------------------------------------------------------------
(* Pure functions, applied to inputs drawn from bounded sets *)

(* the traversal part of the state while a pure function is checked *)
TravIdle ==
    /\ server = <<>>
    /\ op = "none"
    /\ start = None
    /\ variant = "none"
    /\ cur = None
    /\ pc = "Idle"
    /\ elemIdx = 0
    /\ inflight = {}
    /\ pulls = 0
    /\ fetched = <<>>
    /\ yielded = <<>>
    /\ elems = <<>>
    /\ result = None

(* the pure-function part of the state while a traversal is checked *)
PureIdle ==
    /\ call = "none"
    /\ input = None
    /\ output = None

Path_auteurs == <<"/", "a", "u", "t", "e", "u", "r", "s">>
Path_challenges == <<"/", "c", "h", "a", "l", "l", "e", "n", "g", "e", "s">>

Str_lang == <<"l", "a", "n", "g">>
Str_debut == <<"d", "e", "b", "u", "t">>
Str_debut_a == debut_ \o <<"a">>
Str_debut_b == debut_ \o <<"b">>

QueryKeys == {Str_debut_a, Str_debut_b, Str_lang, Str_debut}
QueryValues == {<<"2", "0">>, <<"5">>, <<>>, <<"x">>, <<"-", "5">>}
QueryParams == {<<k, v>> : k \in QueryKeys, v \in QueryValues}

ApiLink(path, query) ==
    [scheme |-> "https", netloc |-> "api.www.root-me.org", path |-> path, query |-> query]

CursorLinks == {ApiLink(Path_challenges, q) : q \in SeqsUpTo(QueryParams, MaxQuery)}

CursorInputs ==
    {[self |-> PagedList(<<>>, RelsDict(<<[rel |-> d, href |-> u]>>, NoRels)), rel |-> r] :
        d \in RelTypes, u \in CursorLinks, r \in RelTypes}

InitCursor ==
    /\ call = "get_rel_start"
    /\ input \in CursorInputs
    /\ output = None
    /\ TravIdle

ApplyCursor ==
    /\ call = "get_rel_start"
    /\ output = None
    /\ output' = get_rel_start(input.self, input.rel)
    /\ UNCHANGED <<call, input>>
    /\ UNCHANGED travVars

SpecCursor == InitCursor /\ [][ApplyCursor]_vars

(* Raw field mappings on the wire *)
RawAda == [id_auteur |-> <<"4", "2">>, nom |-> "Ada"]
RawBob == [id_auteur |-> <<"7">>, nom |-> "Bob"]
RawNoId == [nom |-> "Eve"]
RawBadId == [id_auteur |-> <<"x">>, nom |-> "Mal"]

DictKeys == {<<"1">>, <<"3">>, <<"2">>, <<"1", "0">>}
DictVals == {RawAda, RawBob, RawNoId, RawBadId}

(* dicts: no key occurs twice *)
DictLists ==
    {d \in SeqsUpTo({<<k, v>> : k \in DictKeys, v \in DictVals}, MaxDict) :
        \A i, j \in 1..Len(d) : i # j => d[i][1] # d[j][1]}

InitDictList ==
    /\ call = "from_dictlist"
    /\ input \in {[cls |-> "AuthorShort", dictlist |-> d] : d \in DictLists}
    /\ output = None
    /\ TravIdle

ApplyDictList ==
    /\ call = "from_dictlist"
    /\ output = None
    /\ output' = from_dictlist(input.cls, input.dictlist)
    /\ UNCHANGED <<call, input>>
    /\ UNCHANGED travVars

SpecDictList == InitDictList /\ [][ApplyDictList]_vars

RecAda == AuthorShort_from_dict(RawAda).rec
RecBob == AuthorShort_from_dict(RawBob).rec

LinkNextTo(n) == ApiLink(Path_auteurs, <<<<Str_debut_a, IntToStr(n)>>>>)

SliceRels ==
    {NoRels,
     RelsDict(<<[rel |-> Rel_NEXT, href |-> LinkNextTo(50)]>>, NoRels),
     RelsDict(<<[rel |-> Rel_PREV, href |-> LinkNextTo(0)],
                [rel |-> Rel_NEXT, href |-> LinkNextTo(50)]>>, NoRels)}

SliceInputs ==
    {[self |-> PagedList(items, rels), a |-> a, b |-> b] :
        items \in SeqsUpTo({RecAda, RecBob}, MaxDict),
        rels \in SliceRels,
        a \in (0 - MaxDict - 1)..(MaxDict + 1),
        b \in (0 - MaxDict - 1)..(MaxDict + 1)}

InitSlice ==
    /\ call = "getitem_slice"
    /\ input \in SliceInputs
    /\ output = None
    /\ TravIdle

ApplySlice ==
    /\ call = "getitem_slice"
    /\ output = None
    /\ output' = PagedList_getitem_slice(input.self, input.a, input.b)
    /\ UNCHANGED <<call, input>>
    /\ UNCHANGED travVars

SpecSlice == InitSlice /\ [][ApplySlice]_vars

----------------------------------------------------------------------------
(* Cursor extraction *)

CursorApplied == call = "get_rel_start" /\ output # None

CursorLinkPresent == input.rel \in DOMAIN input.self.rels

(* the parameters of the raw query string whose key starts with debut_ *)
PrefixParams(url) == SelectSeq(url.query, LAMBDA p : StartsWith(p[1], debut_))

(* ... and of those, the ones that carry a value *)
ValuedPrefixParams(url) == SelectSeq(PrefixParams(url), LAMBDA p : p[2] # <<>>)

CursorOf(params) ==
    /\ Len(params) = 0 => output.err = "" /\ ~output.none /\ output.val = 0
    /\ (Len(params) = 1 /\ PyInt(params[1][2]).err = "") =>
           output.err = "" /\ ~output.none /\ output.val = PyInt(params[1][2]).val
    /\ Len(params) >= 2 => output.err # ""

(* C3, as claimed: on a present rel link, no query key with the prefix     *)
(* debut_ gives cursor 0, exactly one gives its integer value, two or more *)
(* make the extraction fail.                                               *)
C3_Original ==
    (CursorApplied /\ CursorLinkPresent) => CursorOf(PrefixParams(input.self.rels[input.rel]))

(* what the code does: the same, counting only the debut_ parameters that  *)
(* carry a value (a blank-valued parameter is dropped before the count)    *)
C3_CursorExtraction ==
    (CursorApplied /\ CursorLinkPresent) =>
        CursorOf(ValuedPrefixParams(input.self.rels[input.rel]))

(* two debut_ parameters, both valued with integers: the extraction failed *)
C3_Witness ==
    /\ CursorApplied
    /\ CursorLinkPresent
    /\ Len(ValuedPrefixParams(input.self.rels[input.rel])) = 2
    /\ \A i \in 1..2 : PyInt(ValuedPrefixParams(input.self.rels[input.rel])[i][2]).err = ""
    /\ output.err = "ValueError"

----------------------------------------------------------------------------
(* Keyed collection decoder *)

DictListApplied == call = "from_dictlist" /\ output # None

AllDecodable(cls, d) == \A i \in 1..Len(d) : from_dict(cls, d[i][2]).err = ""

(* C9: from_dictlist on an empty mapping returns an empty list without     *)
(* error; on N keys whose values decode it returns N records, the i-th     *)
(* being the decode of the value under the i-th key in received order,     *)
(* whatever the key values are.                                            *)
C9_DictListOrder ==
    DictListApplied =>
        /\ input.dictlist = <<>> => output.err = "" /\ output.list = <<>>
        /\ AllDecodable(input.cls, input.dictlist) =>
               /\ output.err = ""
               /\ Len(output.list) = Len(input.dictlist)
               /\ \A i \in 1..Len(input.dictlist) :
                      output.list[i] = from_dict(input.cls, input.dictlist[i][2]).rec

(* keys "3","1" in that order, with different values: the record of "3"   *)
(* comes first                                                             *)
C9_Witness ==
    /\ DictListApplied
    /\ Len(input.dictlist) = 2
    /\ input.dictlist[1][1] = <<"3">>
    /\ input.dictlist[2][1] = <<"1">>
    /\ input.dictlist[1][2] = RawAda
    /\ input.dictlist[2][2] = RawBob
    /\ output.err = ""
    /\ output.list = <<RecAda, RecBob>>

----------------------------------------------------------------------------
(* List envelope slicing *)

SliceApplied == call = "getitem_slice" /\ output # None

Max(x, y) == IF x > y THEN x ELSE y
Min(x, y) == IF x < y THEN x ELSE y

(* 0-based bound of a[lo:hi] on a list of n elements *)
Bound(i, n) == IF i < 0 THEN Max(n + i, 0) ELSE Min(i, n)

(* C10: slicing a List Envelope returns a new List Envelope whose items    *)
(* are env.items[a:b], whose Rel-Link Set is env's, unchanged, and leaves  *)
(* env as it was.                                                          *)
C10_SliceKeepsRels ==
    SliceApplied =>
        LET n == Len(input.self.data)
            lo == Bound(input.a, n)
            hi == Bound(input.b, n)
        IN  /\ output.ret.shape = "list"
            /\ Len(output.ret.data) = Max(hi - lo, 0)
            /\ \A j \in 1..Len(output.ret.data) :
                   output.ret.data[j] = input.self.data[lo + j]
            /\ output.ret.rels = input.self.rels
            /\ output.self = input.self

(* a proper sub-range of a three-record page that has both links *)
C10_Witness ==
    /\ SliceApplied
    /\ Len(input.self.data) = 3
    /\ DOMAIN input.self.rels = RelTypes
    /\ Len(output.ret.data) = 1
    /\ output.ret.data[1] = input.self.data[2]
    /\ output.ret.rels = input.self.rels

----------------------------------------------------------------------------
(* The remote API behind the fetch capability *)

(* the wire record i of page k; it carries the fields of both variants *)
Raw(k, i) ==
    [id_auteur |-> IntToStr(10 * k + i), nom |-> "n",
     id_solution |-> IntToStr(10 * k + i), url_solution |-> "/s"]

(* a wire record without its id fields *)
RawBad == [nom |-> "n", url_solution |-> "/s"]

NoFault == [at |-> 0, kind |-> "none", to |-> 0]

(* what can be wrong with one page of a chain of n pages: its next link    *)
(* (or its previous link) leaves the API (other host, other scheme), is    *)
(* written with an upper-case scheme, leads back to an earlier page, or    *)
(* its payload has a record that does not decode                           *)
Faults(n) ==
    {NoFault}
    \cup {[at |-> f, kind |-> k, to |-> 0] :
            f \in 1..n, k \in {"foreign", "http", "bad_record"}}
    \cup {[at |-> f, kind |-> "upper", to |-> 0] : f \in 1..(n - 1)}
    \cup {[at |-> f, kind |-> "foreign_prev", to |-> 0] : f \in 2..n}
    \cup UNION {{[at |-> f, kind |-> "cycle", to |-> t] : t \in 1..f} : f \in 1..n}

PathOf(shape) == IF shape = "item" THEN Path_challenges ELSE Path_auteurs

PageLink(shape, scheme, netloc, k) ==
    [scheme |-> scheme, netloc |-> netloc, path |-> PathOf(shape),
     query |-> <<<<Str_debut_a, IntToStr(k)>>>>]

(* the relLinkEntry list of page k *)
PageRels(shape, n, fault, k) ==
    LET api_link(j) == PageLink(shape, "https", "api.www.root-me.org", j)
        prev ==
            IF fault.at = k /\ fault.kind = "foreign_prev"
            THEN <<[rel |-> Rel_PREV, href |-> PageLink(shape, "https", "evil.example", k - 1)]>>
            ELSE IF k > 1 THEN <<[rel |-> Rel_PREV, href |-> api_link(k - 1)]>>
            ELSE <<>>
        next ==
            IF fault.at = k /\ fault.kind = "foreign"
            THEN <<[rel |-> Rel_NEXT,
                    href |-> PageLink(shape, "https", "api.www.root-me.org:443", k + 1)]>>
            ELSE IF fault.at = k /\ fault.kind = "http"
            THEN <<[rel |-> Rel_NEXT,
                    href |-> PageLink(shape, "http", "api.www.root-me.org", k + 1)]>>
            ELSE IF fault.at = k /\ fault.kind = "upper"
            THEN <<[rel |-> Rel_NEXT,
                    href |-> PageLink(shape, "HTTPS", "api.www.root-me.org", k + 1)]>>
            ELSE IF fault.at = k /\ fault.kind = "cycle"
            THEN <<[rel |-> Rel_NEXT, href |-> api_link(fault.to)]>>
            ELSE IF k < n THEN <<[rel |-> Rel_NEXT, href |-> api_link(k + 1)]>>
            ELSE <<>>
    IN  prev \o next

(* the raw paged response [payload, relLinkEntry*] of page k *)
PageResponse(shape, n, lens, fault, k) ==
    LET bad == fault.at = k /\ fault.kind = "bad_record"
    IN  [payload |->
            IF shape = "item" THEN (IF bad THEN RawBad ELSE Raw(k, 1))
            ELSE [i \in 1..lens[k] |->
                    <<IntToStr(i - 1), IF bad /\ i = lens[k] THEN RawBad ELSE Raw(k, i)>>],
         rels |-> PageRels(shape, n, fault, k)]

(* a page of a list holds no record, one record, or is full *)
PageLens == {0, 1, MaxItems}

Servers(shape) ==
    {[k \in 1..n |-> PageResponse(shape, n, lens, fault, k)] :
        <<n, lens, fault>> \in
            {<<n, lens, fault>> \in
                UNION {{n} \X [1..n -> (IF shape = "item" THEN {1} ELSE PageLens)]
                           \X Faults(n) : n \in 1..MaxPages} :
                fault.kind = "bad_record" => lens[fault.at] > 0}}

(* the page a request asks for: the offset in its debut_ parameter, the    *)
(* first page without one                                                  *)
RequestedPage(req) ==
    LET starts == SelectSeq(req.params, LAMBDA p : StartsWith(p[1], debut_))
    IN  IF starts = <<>> THEN 1 ELSE PyInt(starts[1][2][1]).val

(* res.json() of the GET *)
ServerRespond(srv, req) ==
    IF RequestedPage(req) \in DOMAIN srv THEN srv[RequestedPage(req)]
    ELSE [payload |-> RawBad, rels |-> <<>>]

----------------------------------------------------------------------------
(* Traversal drivers and single-step calls (api.py) *)

IterPagesOps == {"iter_item_pages", "iter_list_pages"}
IterOps == IterPagesOps \cup {"iter_list_elements"}
CallOps == {"get_next_page", "get_prev_page"}

OpsFor(shape) ==
    IF shape = "item" THEN {"iter_item_pages"} \cup CallOps
    ELSE {"iter_list_pages", "iter_list_elements"} \cup CallOps

(* the envelope a first call (get_authors, get_challenge, ...) decoded     *)
FirstPage(shape, res, cls) ==
    IF shape = "item" THEN from_pagedresult(res, cls) ELSE from_pagedresults(res, cls)

Init ==
    /\ PureIdle
    /\ \E shape \in {"item", "list"} :
        /\ server \in Servers(shape)
        /\ op \in OpsFor(shape)
        /\ variant \in Variants
        /\ \E s \in DOMAIN server :
            /\ FirstPage(shape, server[s], variant).err = ""
            /\ start = FirstPage(shape, server[s], variant).page
    /\ cur = start
    /\ pc = "Start"
    /\ elemIdx = 1
    /\ inflight = {}
    /\ pulls = 0
    /\ fetched = <<>>
    /\ yielded = <<>>
    /\ elems = <<>>
    /\ result = None

(* get_prev_page passing Rel.NEXT *)
RelOf_next(o) == Rel_NEXT

(* the direction each operation follows: get_prev_page passes Rel.PREV,    *)
(* get_next_page and the three drivers (through get_next_page) Rel.NEXT    *)
RelOf(o) == IF o = "get_prev_page" THEN Rel_PREV ELSE Rel_NEXT

(* a driver that remembers its requests and ends when a link leads to a    *)
(* page it has already asked for                                           *)
AwaitNextPage_once(paged) ==
    LET r == get_rel_page_request(paged, RelOf(op))
    IN  IF r.kind = "none" \/ (r.kind = "fetch" /\ \E i \in 1..Len(fetched) : fetched[i] = r.req)
        THEN pc' = "Exhausted" /\ UNCHANGED <<inflight, fetched>>
        ELSE IF r.kind = "raise" THEN pc' = "Failed" /\ UNCHANGED <<inflight, fetched>>
        ELSE /\ pc' = "Fetching"
             /\ inflight' = inflight \cup {r.req}
             /\ fetched' = Append(fetched, r.req)

(* res = await self.get_next_page(paged): break, raise, or await the API   *)
AwaitNextPage(paged) ==
    LET r == get_rel_page_request(paged, RelOf(op))
    IN  IF r.kind = "none" THEN pc' = "Exhausted" /\ UNCHANGED <<inflight, fetched>>
        ELSE IF r.kind = "raise" THEN pc' = "Failed" /\ UNCHANGED <<inflight, fetched>>
        ELSE /\ pc' = "Fetching"
             /\ inflight' = inflight \cup {r.req}
             /\ fetched' = Append(fetched, r.req)

(* iter_item_pages / iter_list_pages, from the consumer's request to the   *)
(* next suspension: the first request yields the starting envelope, a      *)
(* later one resumes after the yield                                       *)
iter_pages_resume ==
    /\ op \in IterPagesOps
    /\ pc \in {"Start", "Suspended"}
    /\ Len(fetched) < MaxFetches
    /\ pulls' = pulls + 1
    /\ IF pc = "Start"
       THEN /\ yielded' = Append(yielded, cur)
            /\ pc' = "Suspended"
            /\ UNCHANGED <<inflight, fetched>>
       ELSE /\ AwaitNextPage(cur)
            /\ UNCHANGED yielded
    /\ UNCHANGED <<server, op, start, variant, cur, elemIdx, elems, result>>
    /\ UNCHANGED pureVars

(* a driver that fetches the page after the one it is about to yield *)
iter_pages_fetched_prefetch ==
    /\ op \in IterPagesOps
    /\ pc = "Fetching"
    /\ \E req \in inflight :
        LET d == get_rel_page_decode(cur, ServerRespond(server, req))
            r == get_rel_page_request(d.page, RelOf(op))
        IN  IF d.err # ""
            THEN /\ pc' = "Failed"
                 /\ inflight' = inflight \ {req}
                 /\ UNCHANGED <<cur, yielded, fetched>>
            ELSE /\ cur' = d.page
                 /\ yielded' = Append(yielded, d.page)
                 /\ pc' = "Suspended"
                 /\ IF r.kind = "fetch" /\ Len(fetched) < MaxFetches
                    THEN /\ inflight' = (inflight \ {req}) \cup {r.req}
                         /\ fetched' = Append(fetched, r.req)
                    ELSE /\ inflight' = inflight \ {req}
                         /\ UNCHANGED fetched
    /\ UNCHANGED <<server, op, start, variant, elemIdx, pulls, elems, result>>
    /\ UNCHANGED pureVars

(* a driver that passes over a page it cannot decode *)
iter_pages_fetched_skip ==
    /\ op \in IterPagesOps
    /\ pc = "Fetching"
    /\ \E req \in inflight :
        LET d == get_rel_page_decode(cur, ServerRespond(server, req))
        IN  /\ inflight' = inflight \ {req}
            /\ IF d.err # ""
               THEN pc' = "Suspended" /\ UNCHANGED <<cur, yielded>>
               ELSE /\ cur' = d.page
                    /\ yielded' = Append(yielded, d.page)
                    /\ pc' = "Suspended"
    /\ UNCHANGED <<server, op, start, variant, elemIdx, pulls, fetched, elems, result>>
    /\ UNCHANGED pureVars

(* iter_item_pages / iter_list_pages when the API answers: decode, then    *)
(* yield the new page                                                      *)
iter_pages_fetched ==
    /\ op \in IterPagesOps
    /\ pc = "Fetching"
    /\ \E req \in inflight :
        LET d == get_rel_page_decode(cur, ServerRespond(server, req))
        IN  /\ inflight' = inflight \ {req}
            /\ IF d.err # ""
               THEN pc' = "Failed" /\ UNCHANGED <<cur, yielded>>
               ELSE /\ cur' = d.page
                    /\ yielded' = Append(yielded, d.page)
                    /\ pc' = "Suspended"
    /\ UNCHANGED <<server, op, start, variant, elemIdx, pulls, fetched, elems, result>>
    /\ UNCHANGED pureVars

(* an element loop that steps over every second record *)
NextElement_skip(page, idx) ==
    IF idx <= Len(page.data)
    THEN /\ elems' = Append(elems, page.data[idx])
         /\ elemIdx' = idx + 2
         /\ pc' = "Suspended"
         /\ UNCHANGED <<inflight, fetched>>
    ELSE /\ AwaitNextPage(page)
         /\ UNCHANGED <<elems, elemIdx>>

(* iter_list_elements: for element in page: yield element; when the page   *)
(* is used up the page generator is resumed                                *)
NextElement(page, idx) ==
    IF idx <= Len(page.data)
    THEN /\ elems' = Append(elems, page.data[idx])
         /\ elemIdx' = idx + 1
         /\ pc' = "Suspended"
         /\ UNCHANGED <<inflight, fetched>>
    ELSE /\ AwaitNextPage(page)
         /\ UNCHANGED <<elems, elemIdx>>

(* iter_list_elements, from the consumer's request to the next suspension *)
iter_list_elements_resume ==
    /\ op = "iter_list_elements"
    /\ pc \in {"Start", "Suspended"}
    /\ Len(fetched) < MaxFetches
    /\ pulls' = pulls + 1
    /\ IF pc = "Start"
       THEN yielded' = Append(yielded, cur) /\ NextElement(cur, 1)
       ELSE UNCHANGED yielded /\ NextElement(cur, elemIdx)
    /\ UNCHANGED <<server, op, start, variant, cur, result>>
    /\ UNCHANGED pureVars

(* iter_list_elements when the API answers: the page generator yields the  *)
(* decoded page and the element loop starts on it                          *)
iter_list_elements_fetched ==
    /\ op = "iter_list_elements"
    /\ pc = "Fetching"
    /\ \E req \in inflight :
        LET d == get_rel_page_decode(cur, ServerRespond(server, req))
        IN  IF d.err # ""
            THEN /\ pc' = "Failed"
                 /\ inflight' = inflight \ {req}
                 /\ UNCHANGED <<cur, yielded, elems, elemIdx, fetched>>
            ELSE /\ cur' = d.page
                 /\ yielded' = Append(yielded, d.page)
                 /\ IF d.page.data # <<>>
                    THEN /\ elems' = Append(elems, d.page.data[1])
                         /\ elemIdx' = 2
                         /\ pc' = "Suspended"
                         /\ inflight' = inflight \ {req}
                         /\ UNCHANGED fetched
                    ELSE LET r == get_rel_page_request(d.page, RelOf(op))
                         IN  /\ UNCHANGED <<elems, elemIdx>>
                             /\ IF r.kind = "fetch"
                                THEN /\ pc' = "Fetching"
                                     /\ inflight' = (inflight \ {req}) \cup {r.req}
                                     /\ fetched' = Append(fetched, r.req)
                                ELSE /\ pc' = IF r.kind = "none" THEN "Exhausted" ELSE "Failed"
                                     /\ inflight' = inflight \ {req}
                                     /\ UNCHANGED fetched
    /\ UNCHANGED <<server, op, start, variant, pulls, result>>
    /\ UNCHANGED pureVars

CallRelPage(r) ==
    LET q == get_rel_page_request(cur, r)
    IN  /\ pc = "Start"
        /\ IF q.kind = "fetch"
           THEN /\ pc' = "Fetching"
                /\ inflight' = inflight \cup {q.req}
                /\ fetched' = Append(fetched, q.req)
                /\ UNCHANGED result
           ELSE /\ pc' = IF q.kind = "none" THEN "Returned" ELSE "Raised"
                /\ result' = [err |-> q.err, page |-> None]
                /\ UNCHANGED <<inflight, fetched>>
        /\ UNCHANGED <<server, op, start, variant, cur, elemIdx, pulls, yielded, elems>>
        /\ UNCHANGED pureVars

(* RootMeAPI.get_next_page *)
get_next_page == op = "get_next_page" /\ CallRelPage(RelOf(op))

(* RootMeAPI.get_prev_page *)
get_prev_page == op = "get_prev_page" /\ CallRelPage(RelOf(op))

(* a single-step call when the API answers *)
get_rel_page_fetched ==
    /\ op \in CallOps
    /\ pc = "Fetching"
    /\ \E req \in inflight :
        LET d == get_rel_page_decode(cur, ServerRespond(server, req))
        IN  /\ inflight' = inflight \ {req}
            /\ result' = d
            /\ pc' = IF d.err # "" THEN "Raised" ELSE "Returned"
    /\ UNCHANGED <<server, op, start, variant, cur, elemIdx, pulls, fetched, yielded, elems>>
    /\ UNCHANGED pureVars

Next ==
    \/ iter_pages_resume
    \/ iter_pages_fetched
    \/ iter_list_elements_resume
    \/ iter_list_elements_fetched
    \/ get_next_page
    \/ get_prev_page
    \/ get_rel_page_fetched

Spec == Init /\ [][Next]_vars

----------------------------------------------------------------------------
(* Forward page traversal over a chain *)

ApiAuthority(url) == Lower(url.scheme) = API_URL.scheme /\ url.netloc = API_URL.netloc

(* the page of the remote API a link addresses *)
LinkTarget(url) == PyInt(url.query[1][2]).val

(* the envelope the page behind env's link in direction r decodes to *)
PageBehind(env, r) ==
    FirstPage(env.shape, server[LinkTarget(env.rels[r])], variant)

FollowableLink(env, r) ==
    /\ r \in DOMAIN env.rels
    /\ ApiAuthority(env.rels[r])
    /\ LinkTarget(env.rels[r]) \in DOMAIN server
    /\ PageBehind(env, r).err = ""

(* the pages from env along direction r up to a page without such a link; *)
(* ok is FALSE when a link cannot be followed or no end is reached within  *)
(* fuel steps                                                              *)
RECURSIVE ChainFrom(_, _, _)
ChainFrom(env, r, fuel) ==
    IF r \notin DOMAIN env.rels THEN [ok |-> TRUE, pages |-> <<env>>]
    ELSE IF fuel = 0 \/ ~FollowableLink(env, r) THEN [ok |-> FALSE, pages |-> <<env>>]
    ELSE LET rest == ChainFrom(PageBehind(env, r).page, r, fuel - 1)
         IN  [ok |-> rest.ok, pages |-> <<env>> \o rest.pages]

IsPrefix(s, t) == Len(s) <= Len(t) /\ s = SubSeq(t, 1, Len(s))

(* C1: iter_item_pages / iter_list_pages over a chain of N pages (a valid  *)
(* next link on every page but the last, none on the last) yields the N    *)
(* envelopes in chain order, each once, then ends, with N-1 fetches.       *)
C1_ChainTraversal ==
    (op \in IterPagesOps /\ ChainFrom(start, Rel_NEXT, MaxPages).ok) =>
        LET chain == ChainFrom(start, Rel_NEXT, MaxPages).pages
        IN  /\ pc # "Failed"
            /\ IsPrefix(yielded, chain)
            /\ Len(fetched) <= Len(chain) - 1
            /\ pc = "Exhausted" => yielded = chain /\ Len(fetched) = Len(chain) - 1

(* the same holds over chains whose list pages all hold a record *)
C1_NonEmptyChain ==
    (op = "iter_list_pages" => \A k \in DOMAIN server : server[k].payload # <<>>)
        => C1_ChainTraversal

(* a three-page chain walked to its end *)
C1_Witness ==
    /\ op \in IterPagesOps
    /\ ChainFrom(start, Rel_NEXT, MaxPages).ok
    /\ Len(ChainFrom(start, Rel_NEXT, MaxPages).pages) = 3
    /\ pc = "Exhausted"
    /\ Len(yielded) = 3
    /\ Len(fetched) = 2

----------------------------------------------------------------------------
(* Link validation *)

RECURSIVE TotalLen(_)
TotalLen(pages) == IF pages = <<>> THEN 0 ELSE Len(Head(pages).data) + TotalLen(Tail(pages))

(* the envelope whose link the operation resolved last, or is about to *)
LastPage == IF op \in CallOps \/ yielded = <<>> THEN start ELSE yielded[Len(yielded)]

(* the operation has resolved the link of LastPage *)
LinkResolved ==
    IF op \in CallOps THEN pc # "Start"
    ELSE IF op \in IterPagesOps THEN yielded # <<>> /\ pulls > Len(yielded)
    ELSE yielded # <<>> /\ Len(elems) = TotalLen(yielded) /\ pulls > Len(elems)

(* the envelope whose link led to the i-th fetch *)
FetchSource(i) == IF op \in CallOps THEN start ELSE yielded[i]

(* scheme://authority as get_rel_page sees it differs from the API's *)
OutsideApi(url) ==
    split_url(url).scheme # "https" \/ split_url(url).netloc # "api.www.root-me.org"

(* C2: a rel link whose scheme+authority differs from the API base makes   *)
(* get_rel_page raise, and no fetch is ever issued for such a link, at     *)
(* the first and at every later step of a traversal.                       *)
C2_ForeignLinkNeverFetched ==
    /\ \A i \in 1..Len(fetched) :
           /\ RelOf(op) \in DOMAIN FetchSource(i).rels
           /\ ~OutsideApi(FetchSource(i).rels[RelOf(op)])
    /\ (LinkResolved /\ RelOf(op) \in DOMAIN LastPage.rels
            /\ OutsideApi(LastPage.rels[RelOf(op)])) =>
           /\ pc \in {"Failed", "Raised"}
           /\ inflight = {}
           /\ Len(fetched) = (IF op \in CallOps THEN 0 ELSE Len(yielded) - 1)

(* a traversal that failed on the http:// link of its second page *)
C2_Witness ==
    /\ op \in IterPagesOps
    /\ Len(yielded) = 2
    /\ Rel_NEXT \in DOMAIN yielded[2].rels
    /\ yielded[2].rels[Rel_NEXT].scheme = "http"
    /\ pc = "Failed"
    /\ Len(fetched) = 1

----------------------------------------------------------------------------
(* Record-level traversal *)

RECURSIVE Flatten(_)
Flatten(pages) == IF pages = <<>> THEN <<>> ELSE Head(pages).data \o Flatten(Tail(pages))

(* C4: iter_list_elements yields the records of the visited pages as one   *)
(* flat sequence: page after page, in intra-page order, none omitted or    *)
(* repeated, so that the count is the sum of the page lengths.             *)
C4_FlatOrder ==
    op = "iter_list_elements" =>
        /\ IsPrefix(elems, Flatten(yielded))
        /\ yielded # <<>> =>
               Len(elems) >= TotalLen(SubSeq(yielded, 1, Len(yielded) - 1))
        /\ pc \in {"Fetching", "Exhausted", "Failed"} =>
               elems = Flatten(yielded) /\ Len(elems) = TotalLen(yielded)

(* three pages with records on the first and the last, walked to the end *)
C4_Witness ==
    /\ op = "iter_list_elements"
    /\ pc = "Exhausted"
    /\ Len(yielded) = 3
    /\ Len(yielded[1].data) = 2
    /\ Len(yielded[3].data) = 2
    /\ Len(elems) >= 4
    /\ elems[1] = yielded[1].data[1]
    /\ elems[Len(elems)] = yielded[3].data[2]

----------------------------------------------------------------------------
(* Single flight *)

(* C5: at most one fetch is outstanding; the fetch for page k+1 is issued  *)
(* only after page k was yielded and the consumer asked for more; while    *)
(* the consumer does not ask, nothing is fetched beyond the k-1 fetches    *)
(* that produced the pages it has.                                         *)
C5_SingleFlight ==
    op \in IterOps =>
        /\ Cardinality(inflight) <= 1
        /\ pc # "Fetching" => inflight = {}
        /\ Len(fetched) <= Len(yielded)
        /\ op \in IterPagesOps =>
               /\ Len(fetched) <= (IF pulls = 0 THEN 0 ELSE pulls - 1)
               /\ pc = "Suspended" =>
                      Len(fetched) = Len(yielded) - 1 /\ pulls = Len(yielded)

(* a consumer holding page 2, with the one fetch that produced it *)
C5_Witness ==
    /\ op \in IterPagesOps
    /\ pc = "Suspended"
    /\ Len(yielded) = 2
    /\ Rel_NEXT \in DOMAIN yielded[2].rels
    /\ Len(fetched) = 1
    /\ inflight = {}

----------------------------------------------------------------------------
(* The state machine of a traversal *)

(* Start -> HasCurrent -> (FetchNext -> HasCurrent)* -> Exhausted, with    *)
(* Failed reachable from HasCurrent (link rejected) and FetchNext (fetch   *)
(* or decode failed).  HasCurrent is "Suspended", FetchNext is "Fetching". *)
PageTransitions ==
    {<<"Start", "Suspended">>, <<"Suspended", "Fetching">>, <<"Fetching", "Suspended">>,
     <<"Suspended", "Exhausted">>, <<"Suspended", "Failed">>, <<"Fetching", "Failed">>}

(* iter_list_elements stays in HasCurrent while it hands out the records   *)
(* of the current page, and passes over a page without records             *)
ElementTransitions ==
    PageTransitions \cup
        {<<"Suspended", "Suspended">>, <<"Start", "Fetching">>, <<"Start", "Exhausted">>,
         <<"Start", "Failed">>, <<"Fetching", "Fetching">>, <<"Fetching", "Exhausted">>}

(* the response to the outstanding fetch does not decode *)
ResponseUndecodable ==
    /\ pc = "Fetching"
    /\ \E req \in inflight : get_rel_page_decode(cur, ServerRespond(server, req)).err # ""

(* the link the page-level driver is about to resolve is rejected *)
LinkRejected ==
    /\ pc = "Suspended"
    /\ RelOf(op) \in DOMAIN cur.rels
    /\ OutsideApi(cur.rels[RelOf(op)])

(* what every step of a traversal does *)
C6_Step ==
    op \in IterOps =>
        /\ <<pc, pc'>> \in (IF op \in IterPagesOps THEN PageTransitions
                            ELSE ElementTransitions)
        /\ pc \notin {"Exhausted", "Failed"}
        /\ pc' \in {"Exhausted", "Failed"} => inflight' = {} /\ fetched' = fetched
        /\ ResponseUndecodable =>
               pc' = "Failed" /\ yielded' = yielded /\ elems' = elems /\ cur' = cur
        /\ (op \in IterPagesOps /\ LinkRejected) => pc' = "Failed" /\ yielded' = yielded
        /\ \A i \in (Len(fetched) + 1)..Len(fetched') :
               fetched'[i] = api(LStripSlash(yielded'[i].rels[Rel_NEXT].path),
                                 parse_qs(yielded'[i].rels[Rel_NEXT].query))

(* C6: a traversal moves Start -> HasCurrent -> (FetchNext -> HasCurrent)* *)
(* -> Exhausted; Exhausted and Failed are terminal (nothing is yielded or  *)
(* fetched after them); an error while resolving, fetching or decoding the *)
(* next page leads directly to Failed: the fetch is not retried, no later  *)
(* page is fetched, and no link of the other direction is followed.        *)
C6_StateMachine == [][C6_Step]_vars

(* a traversal that failed on the undecodable second page of its chain,    *)
(* after the one fetch for it                                              *)
C6_Witness ==
    /\ op \in IterPagesOps
    /\ pc = "Failed"
    /\ Len(yielded) = 1
    /\ Len(fetched) = 1
    /\ yielded[1].shape = "item" \/ yielded[1].data # <<>>
    /\ get_rel_page_decode(cur, ServerRespond(server, fetched[1])).err = "KeyError"

----------------------------------------------------------------------------
(* Shape and payload variant *)

RecordsOf(env) == IF env.shape = "item" THEN {env.data} ELSE {env.data[i] : i \in 1..Len(env.data)}

SameShapeAndVariant(env) ==
    /\ env.shape = start.shape
    /\ \A rec \in RecordsOf(env) : rec.variant = variant

(* C7: every envelope produced by following a rel link has the shape of    *)
(* the envelope it was resolved from and is decoded with the record        *)
(* variant of the starting envelope, on every page of a traversal.         *)
C7_SameShapeAndVariant ==
    /\ \A i \in 1..Len(yielded) : SameShapeAndVariant(yielded[i])
    /\ (op \in CallOps /\ pc = "Returned" /\ result.page # None) =>
           SameShapeAndVariant(result.page)

(* a list traversal over Solution records that followed a link *)
C7_Witness ==
    /\ op = "iter_list_pages"
    /\ variant = "Solution"
    /\ Len(yielded) = 2
    /\ Len(yielded[2].data) = 2
    /\ yielded[2].data[1].variant = "Solution"

----------------------------------------------------------------------------
(* The previous direction *)

(* the directions the traversal drivers for envelopes of a shape follow *)
DriverRels(shape) == {RelOf(o) : o \in OpsFor(shape) \cap IterOps}

RequestFor(url) == api(LStripSlash(url.path), parse_qs(url.query))

ClaimedRel(o) == IF o = "get_prev_page" THEN Rel_PREV ELSE Rel_NEXT

(* what a single step along direction r from the starting envelope gives *)
SingleStep(r) ==
    /\ yielded = <<>>
    /\ Len(fetched) <= 1
    /\ (pc \in {"Returned", "Raised"} /\ r \notin DOMAIN start.rels) =>
           pc = "Returned" /\ result.page = None /\ result.err = "" /\ fetched = <<>>
    /\ (pc # "Start" /\ r \in DOMAIN start.rels /\ OutsideApi(start.rels[r])) =>
           pc = "Raised" /\ result.err = "ValueError" /\ fetched = <<>>
    /\ (pc \in {"Returned", "Raised"} /\ r \in DOMAIN start.rels
            /\ ~OutsideApi(start.rels[r])) =>
           /\ fetched = <<RequestFor(start.rels[r])>>
           /\ IF start.shape = "list" /\ Len(start.data) = 0
              THEN pc = "Raised" /\ result.err = "IndexError"
              ELSE result = PageBehind(start, r)
           /\ pc = (IF result.err = "" THEN "Returned" ELSE "Raised")

----------------------------------------------------------------------------
(* Envelope construction from a raw paged response *)

RelHrefs == {LinkNextTo(0), LinkNextTo(50), LinkNextTo(100)}

RelLinkEntries == {[rel |-> d, href |-> u] : d \in RelTypes, u \in RelHrefs}

(* raw paged responses [payload, relLinkEntry*] of both shapes *)
RawRelsInputs ==
    {[shape |-> "item", target_type |-> "AuthorShort",
      res |-> [payload |-> RawAda, rels |-> rs]] : rs \in SeqsUpTo(RelLinkEntries, MaxRels)}
    \cup
    {[shape |-> "list", target_type |-> "AuthorShort",
      res |-> [payload |-> <<<<<<"1">>, RawAda>>, <<<<"2">>, RawBob>>>>, rels |-> rs]] :
        rs \in SeqsUpTo(RelLinkEntries, MaxRels)}

InitRawRels ==
    /\ call = "from_pagedresult"
    /\ input \in RawRelsInputs
    /\ output = None
    /\ TravIdle

ApplyRawRels ==
    /\ call = "from_pagedresult"
    /\ output = None
    /\ output' = IF input.shape = "item"
                 THEN from_pagedresult(input.res, input.target_type)
                 ELSE from_pagedresults(input.res, input.target_type)
    /\ UNCHANGED <<call, input>>
    /\ UNCHANGED travVars

SpecRawRels == InitRawRels /\ [][ApplyRawRels]_vars

RawRelsApplied == call = "from_pagedresult" /\ output # None

(* positions of the entries of direction d *)
EntriesOf(rs, d) == {i \in 1..Len(rs) : rs[i].rel = d}

LastOf(S) == CHOOSE i \in S : \A j \in S : j <= i

(* C11: the trailing entries of a raw paged response are folded into a     *)
(* Rel-Link Set keyed by direction, with at most one URL per direction     *)
(* (0, 1 or 2 entries); a direction that occurs more than once keeps the   *)
(* URL of its last entry.                                                  *)
C11_LastEntryWins ==
    RawRelsApplied =>
        /\ output.err = ""
        /\ output.page.shape = input.shape
        /\ DOMAIN output.page.rels \subseteq RelTypes
        /\ Cardinality(DOMAIN output.page.rels) <= 2
        /\ \A d \in RelTypes :
               LET at == EntriesOf(input.res.rels, d)
               IN  /\ at = {} => d \notin DOMAIN output.page.rels
                   /\ at # {} =>
                          /\ d \in DOMAIN output.page.rels
                          /\ output.page.rels[d] = input.res.rels[LastOf(at)].href

(* next, previous, next with three different URLs: next keeps the third    *)
C11_Witness ==
    /\ RawRelsApplied
    /\ Len(input.res.rels) = 3
    /\ input.res.rels[1] = [rel |-> Rel_NEXT, href |-> LinkNextTo(50)]
    /\ input.res.rels[2].rel = Rel_PREV
    /\ input.res.rels[3] = [rel |-> Rel_NEXT, href |-> LinkNextTo(100)]
    /\ output.err = ""
    /\ DOMAIN output.page.rels = RelTypes
    /\ output.page.rels[Rel_NEXT] = LinkNextTo(100)

----------------------------------------------------------------------------
(* Integer-as-string coercion *)

IntStrChars == {"0", "1", "5", " ", "-", "+", "_", "x"}

(* short-author field mappings whose id is any short string *)
IntStrInputs == {[id_auteur |-> s, nom |-> "Ada"] : s \in SeqsUpTo(IntStrChars, MaxStr)}

InitIntStr ==
    /\ call = "AuthorShort.from_dict"
    /\ input \in IntStrInputs
    /\ output = None
    /\ TravIdle

ApplyIntStr ==
    /\ call = "AuthorShort.from_dict"
    /\ output = None
    /\ output' = AuthorShort_from_dict(input)
    /\ UNCHANGED <<call, input>>
    /\ UNCHANGED travVars

SpecIntStr == InitIntStr /\ [][ApplyIntStr]_vars

IntStrApplied == call = "AuthorShort.from_dict" /\ output # None

AllDigits(s) == s # <<>> /\ \A i \in 1..Len(s) : IsDigit(s[i])

RECURSIVE DecimalValue(_, _)
DecimalValue(s, acc) ==
    IF s = <<>> THEN acc ELSE DecimalValue(Tail(s), 10 * acc + DigitVal(Head(s)))

(* C13: integer-as-string coercion is a base-10 parse: a string of decimal *)
(* digits decodes to its integer value, and a string with non-digit        *)
(* content (sign, surrounding whitespace, underscore separators, letters,  *)
(* the empty string) is a decode error.                                    *)
C13_Original ==
    IntStrApplied =>
        /\ AllDigits(input.id_auteur) =>
               /\ output.err = ""
               /\ output.rec.id_auteur = DecimalValue(input.id_auteur, 0)
        /\ ~AllDigits(input.id_auteur) => output.err # ""

(* the first half of C13 alone: digit strings decode to their value *)
C13_DigitsDecode ==
    (IntStrApplied /\ AllDigits(input.id_auteur)) =>
        /\ output.err = ""
        /\ output.rec.id_auteur = DecimalValue(input.id_auteur, 0)

(* a signed id decoded to a negative integer instead of failing *)
C13_SignAccepted ==
    /\ IntStrApplied
    /\ input.id_auteur = <<"-", "5">>
    /\ output.err = ""
    /\ output.rec.id_auteur = 0 - 5

----------------------------------------------------------------------------
(* Record decoding: from_dict applied to field mappings on the wire *)

Date_ok == <<"2", "0", "2", "1", "-", "0", "3", "-", "0", "4", " ", "0", "5", ":", "0", "6", ":", "0", "7">>
Date_day == <<"2", "0", "2", "4", "-", "0", "2", "-", "2", "9">>
Date_bad == <<"2", "0", "2", "1", "-", "1", "3", "-", "0", "4", " ", "0", "5", ":", "0", "6", ":", "0", "7">>

Text_plain == <<"a", "b">>
Text_escaped == <<"a", "&amp;", "b">>

RawSolution == [id_solution |-> <<"9">>, url_solution |-> "/s"]
RawSolutionBad == [id_solution |-> <<"x">>, url_solution |-> "/s"]

RawVeryShort == [id_challenge |-> <<"5">>, titre |-> Text_escaped, url_challenge |-> "/c"]
RawVeryShortNoId == [titre |-> Text_plain, url_challenge |-> "/c"]

RawValidationAuthor ==
    [id_challenge |-> <<"5">>, titre |-> Text_plain, id_rubrique |-> <<"6", "9">>,
     date |-> Date_ok]
RawValidationAuthorBad ==
    [id_challenge |-> <<"5">>, titre |-> Text_plain, id_rubrique |-> <<"6", "9">>,
     date |-> Date_bad]

RawValidationChallenge == [id_auteur |-> <<"7">>, date |-> Date_day]
RawValidationChallengeBad == [id_auteur |-> <<"7">>, date |-> Date_bad]

(* a mapping without the key k *)
Without(data, k) == [f \in (DOMAIN data) \ {k} |-> data[f]]

(* a mapping with data[k] = v *)
With(data, k, v) == [f \in (DOMAIN data) \cup {k} |-> IF f = k THEN v ELSE data[f]]

RawAuthor ==
    [id_auteur |-> <<"7">>, nom |-> "Ada", statut |-> "5pre", logo_url |-> "/l.png",
     score |-> <<"1", "0">>, position |-> JInt(3), rang |-> "hacker", membre |-> "true",
     challenges |-> <<RawVeryShort>>, solutions |-> <<>>, validations |-> <<>>]

BoolWire == {"true", "false", "True", "yes", "1", ""}
StatutWire == {"5pre", "5banned", "admin", "5PRE"}
RangWire == {"hacker", "legend", "Hacker", ""}
PositionWire == {JStr(""), JInt(0), JInt(1), JInt(42)}

NestedSolutions == SeqsUpTo({RawSolution, RawSolutionBad}, MaxNested)
NestedValidations == {<<>>, <<RawValidationAuthor>>, <<RawValidationAuthor, RawValidationAuthorBad>>}

AuthorWire ==
    {[id_auteur |-> <<"7">>, nom |-> "Ada", statut |-> st, logo_url |-> "/l.png",
      score |-> <<"1", "0">>, position |-> po, rang |-> ra, membre |-> me,
      challenges |-> <<RawVeryShort>>, solutions |-> so, validations |-> <<>>] :
        st \in StatutWire, po \in PositionWire, ra \in RangWire, me \in BoolWire,
        so \in NestedSolutions}
    \cup {Without(a, "rang") :
            a \in {[id_auteur |-> <<"7">>, nom |-> "Ada", statut |-> st, logo_url |-> "/l.png",
                    score |-> <<"1", "0">>, position |-> po, rang |-> "hacker",
                    membre |-> me, challenges |-> <<>>, solutions |-> <<>>,
                    validations |-> va] :
                      st \in StatutWire, po \in PositionWire, me \in BoolWire,
                      va \in NestedValidations}}
    \cup {Without(RawAuthor, k) : k \in DOMAIN RawAuthor}
    \cup {With(RawAuthor, "challenges", <<RawVeryShort, RawVeryShortNoId>>),
          With(RawAuthor, "score", <<"x">>)}

ChallengeShortWire ==
    {[id_challenge |-> <<"5">>, id_rubrique |-> ru, titre |-> Text_escaped, lang |-> la,
      date_publication |-> da, maj |-> Date_day] :
        ru \in {<<"6", "9">>, <<"1">>, <<"x">>},
        la \in {"fr", "en", "zh", "FR", "xx", ""},
        da \in {Date_ok, Date_day, Date_bad}}

Phrase_unknown == <<"I", "n", "s", "a", "n", "e">>
Phrase_tagged == <<"<", "b", ">", "F", "a", "c", "i", "l", "e", "<", "/", "b", ">">>
Phrase_upper == <<"V", "E", "R", "Y", " ", "H", "A", "R", "D">>

DifficulteWire ==
    {DIFFICULTY_NAMES[1][1], DIFFICULTY_NAMES[2][4], DIFFICULTY_NAMES[3][5],
     Phrase_upper, Phrase_tagged, Phrase_unknown, <<>>}

RawChallenge ==
    [titre |-> Text_escaped, rubrique |-> "Web", soustitre |-> Text_plain,
     score |-> <<"2", "0">>, index_challenge |-> "c1", id_rubrique |-> <<"6", "8">>,
     id_trad |-> <<"5">>, url_challenge |-> "/c", date_publication |-> Date_ok,
     maj |-> Date_day, difficulte |-> DIFFICULTY_NAMES[2][2],
     auteurs |-> <<<<<<"0">>, RawAda>>>>, validations |-> <<>>]

NestedAuthors ==
    {<<>>, <<<<<<"0">>, RawAda>>>>, <<<<<<"1">>, RawBob>>, <<<<"0">>, RawAda>>>>,
     <<<<<<"0">>, RawAda>>, <<<<"1">>, RawBadId>>>>, <<<<<<"0">>, RawNoId>>>>}

NestedChallengeValidations ==
    {<<>>, <<<<<<"0">>, RawValidationChallenge>>>>,
     <<<<<<"0">>, RawValidationChallenge>>, <<<<"1">>, RawValidationChallengeBad>>>>}

ChallengeWire ==
    {[titre |-> Text_escaped, rubrique |-> "Web", soustitre |-> Text_plain,
      score |-> <<"2", "0">>, index_challenge |-> "c1", id_rubrique |-> <<"6", "8">>,
      id_trad |-> <<"5">>, url_challenge |-> "/c", date_publication |-> Date_ok,
      maj |-> Date_day, difficulte |-> di, auteurs |-> au, validations |-> va] :
        di \in DifficulteWire, au \in NestedAuthors, va \in NestedChallengeValidations}
    \cup {Without(RawChallenge, k) : k \in DOMAIN RawChallenge}

RecordInputs ==
    {[cls |-> "Author", data |-> d] : d \in AuthorWire}
    \cup {[cls |-> "ChallengeShort", data |-> d] : d \in ChallengeShortWire}
    \cup {[cls |-> "Challenge", data |-> d] : d \in ChallengeWire}

InitRecord ==
    /\ call = "from_dict"
    /\ input \in RecordInputs
    /\ output = None
    /\ TravIdle

ApplyRecord ==
    /\ call = "from_dict"
    /\ output = None
    /\ output' = record_from_dict(input.cls, input.data)
    /\ UNCHANGED <<call, input>>
    /\ UNCHANGED travVars

SpecRecord == InitRecord /\ [][ApplyRecord]_vars

RecordApplied == call = "from_dict" /\ output # None

----------------------------------------------------------------------------
(* Scalar and enum coercions of the full records *)

AuthorApplied == RecordApplied /\ input.cls = "Author"

(* C12: boolean-as-string coercion accepts exactly "true" (-> true) and    *)
(* "false" (-> false); any other wire value ("True", "yes", "1", "") makes *)
(* the decode of the record fail instead of producing a boolean.           *)
C12_Original ==
    (AuthorApplied /\ HasKey(input.data, "membre")) =>
        /\ input.data.membre \notin {"true", "false"} => output.err # ""
        /\ output.err = "" => (output.rec.membre <=> input.data.membre = "true")

(* what the code does: the flag is true for "true", false for anything     *)
(* else, and never the reason of a failure                                 *)
C12_TrueOrElseFalse ==
    (AuthorApplied /\ HasKey(input.data, "membre")) =>
        /\ output.err = "" => (output.rec.membre <=> input.data.membre = "true")
        /\ output.err = Author_from_dict(With(input.data, "membre", "true")).err

(* an author whose member flag is "yes" decoded, as a non-member *)
C12_YesDecoded ==
    /\ AuthorApplied
    /\ HasKey(input.data, "membre")
    /\ input.data.membre = "yes"
    /\ output.err = ""
    /\ ~output.rec.membre

(* C14: enumerated wire codes (account type, language, rank) decode only   *)
(* on exact match with a member of the closed enumeration, an unknown code *)
(* is a decode error; the optional rank decodes to no value when the field *)
(* is absent, and a present but unrecognized rank is still a decode error. *)
C14_EnumExactMatch ==
    /\ (AuthorApplied /\ HasKey(input.data, "statut")) =>
           /\ input.data.statut \notin AccountType => output.err # ""
           /\ output.err = "" => output.rec.statut = input.data.statut
    /\ (AuthorApplied /\ HasKey(input.data, "rang")) =>
           /\ input.data.rang \notin Rank => output.err # ""
           /\ output.err = "" => output.rec.rang = input.data.rang
    /\ (AuthorApplied /\ ~HasKey(input.data, "rang")) =>
           /\ output.err = Author_from_dict(With(input.data, "rang", "hacker")).err
           /\ output.err = "" => output.rec.rang = None
    /\ (RecordApplied /\ input.cls = "ChallengeShort" /\ HasKey(input.data, "lang")) =>
           /\ input.data.lang \notin Language => output.err # ""
           /\ output.err = "" => output.rec.lang = input.data.lang

(* an author whose rank code is "Hacker", everything else being valid: the *)
(* decode raised                                                           *)
C14_Witness ==
    /\ AuthorApplied
    /\ HasKey(input.data, "rang")
    /\ input.data.rang = "Hacker"
    /\ Author_from_dict(With(input.data, "rang", "hacker")).err = ""
    /\ output.err = "ValueError"

(* C19: the rank position of a full author is an optional integer: the     *)
(* empty string decodes to no value, and every integer wire value,         *)
(* including 0, decodes to that same integer.                              *)
C19_Original ==
    (AuthorApplied /\ HasKey(input.data, "position") /\ output.err = "") =>
        /\ input.data.position = JStr("") => output.rec.position = None
        /\ input.data.position # JStr("") => output.rec.position = input.data.position

(* what the code does: the same for the empty string and the integers      *)
(* other than 0                                                            *)
C19_NonZeroPosition ==
    (AuthorApplied /\ HasKey(input.data, "position") /\ output.err = "") =>
        /\ input.data.position = JStr("") => output.rec.position = None
        /\ input.data.position \notin {JStr(""), JInt(0)} =>
               output.rec.position = input.data.position

(* position 0 decoded to no value *)
C19_ZeroDropped ==
    /\ AuthorApplied
    /\ HasKey(input.data, "position")
    /\ input.data.position = JInt(0)
    /\ output.err = ""
    /\ output.rec.position = None

ChallengeApplied == RecordApplied /\ input.cls = "Challenge"

(* the phrase is in the table of some locale, upper and lower case alike *)
KnownPhrase(phrase) == \E p \in 1..15 : LowerStr(strip_tags(phrase)) = LowerStr(NameAt(p))

(* C15: difficulty decoding is lenient and total: a phrase that matches no *)
(* entry of the known-phrase table in any locale does not raise, the raw   *)
(* phrase is kept verbatim as the difficulty and the decode of the         *)
(* enclosing full challenge succeeds.                                      *)
C15_Original ==
    (/\ ChallengeApplied
     /\ HasKey(input.data, "difficulte")
     /\ ~KnownPhrase(input.data.difficulte)
     /\ Challenge_from_dict(With(input.data, "difficulte", DIFFICULTY_NAMES[1][1])).err = "") =>
        /\ output.err = ""
        /\ output.rec.difficulte = input.data.difficulte

(* what the code does: on an unmatched phrase the decode of the challenge  *)
(* raises                                                                  *)
C15_UnmatchedRaises ==
    (ChallengeApplied /\ HasKey(input.data, "difficulte")
        /\ ~KnownPhrase(input.data.difficulte)) => output.err # ""

(* the decode of an otherwise valid challenge with the phrase "Insane"     *)
(* raised ValueError                                                       *)
C15_InsaneRaised ==
    /\ ChallengeApplied
    /\ HasKey(input.data, "difficulte")
    /\ input.data.difficulte = Phrase_unknown
    /\ Challenge_from_dict(With(input.data, "difficulte", DIFFICULTY_NAMES[1][1])).err = ""
    /\ output.err = "ValueError"

----------------------------------------------------------------------------
(* Difficulty phrases *)

(* the phrase with the characters at the positions U in upper case and the *)
(* others in lower case                                                    *)
Cased(name, U) ==
    [i \in 1..Len(name) |-> IF i \in U THEN UpperChar(name[i]) ELSE LowerChar(name[i])]

(* the sets of positions: a few upper-case characters, or a few lower-case *)
Casings(name) ==
    LET few == {U \in SUBSET (1..Len(name)) : Cardinality(U) <= MaxCased}
    IN  few \cup {(1..Len(name)) \ U : U \in few}

DifficultyInputs ==
    UNION {UNION {{[value |-> v, lang |-> l, level |-> d] :
                      v \in {Cased(DIFFICULTY_NAMES[l][d], U) :
                                U \in Casings(DIFFICULTY_NAMES[l][d])}
                             \cup {DIFFICULTY_NAMES[l][d]}} :
                  d \in 1..Len(DifficultyLevels)} :
           l \in 1..Len(DIFFICULTY_NAMES)}

InitDifficulty ==
    /\ call = "Difficulty.from_str"
    /\ input \in DifficultyInputs
    /\ output = None
    /\ TravIdle

ApplyDifficulty ==
    /\ call = "Difficulty.from_str"
    /\ output = None
    /\ output' = Difficulty_from_str(input.value)
    /\ UNCHANGED <<call, input>>
    /\ UNCHANGED travVars

SpecDifficulty == InitDifficulty /\ [][ApplyDifficulty]_vars

DifficultyApplied == call = "Difficulty.from_str" /\ output # None

(* C16: for every phrase of the difficulty table of a supported locale     *)
(* (French, English, German) and every upper/lower-casing of it,           *)
(* Difficulty.from_str returns the level the table associates with the     *)
(* phrase, whichever locale's table holds it.                              *)
C16_KnownPhraseAnyCase ==
    DifficultyApplied =>
        /\ output.err = ""
        /\ output.val = DifficultyLevels[input.level]

(* the German phrase for very hard, all in upper case *)
C16_Witness ==
    /\ DifficultyApplied
    /\ input.lang = 3
    /\ input.level = 5
    /\ input.value = <<"S", "E", "H", "R", " ", "S", "C", "H", "W", "E", "R">>
    /\ output.err = ""
    /\ output.val = "VERY_HARD"

----------------------------------------------------------------------------
(* Narrowing *)

(* decoded records of every class *)
AsTypeRecords ==
    {record_from_dict(i.cls, i.data).rec :
        i \in {j \in
                 {[cls |-> "AuthorShort", data |-> RawAda],
                  [cls |-> "AuthorShort", data |-> RawBob],
                  [cls |-> "Solution", data |-> RawSolution],
                  [cls |-> "ChallengeVeryShort", data |-> RawVeryShort],
                  [cls |-> "ValidationAuthor", data |-> RawValidationAuthor],
                  [cls |-> "ValidationChallenge", data |-> RawValidationChallenge],
                  [cls |-> "Challenge", data |-> RawChallenge]}
                 \cup {[cls |-> "Author", data |-> With(RawAuthor, "position", p)] :
                          p \in PositionWire}
                 \cup {[cls |-> "ChallengeShort", data |-> d] : d \in ChallengeShortWire} :
               record_from_dict(j.cls, j.data).err = ""}}

AsTypeTargets == RecordClasses \cup {"TypedDictDataclass", "PrettyPrintable", "object"}

InitAsType ==
    /\ call = "as_type"
    /\ input \in {[self |-> r, target_type |-> t] : r \in AsTypeRecords, t \in AsTypeTargets}
    /\ output = None
    /\ TravIdle

ApplyAsType ==
    /\ call = "as_type"
    /\ output = None
    /\ output' = as_type(input.self, input.target_type)
    /\ UNCHANGED <<call, input>>
    /\ UNCHANGED travVars

SpecAsType == InitAsType /\ [][ApplyAsType]_vars

AsTypeApplied == call = "as_type" /\ output # None

(* C17: as_type(record, V) returns the very same record, unchanged, if and *)
(* only if the actual variant of the record is V; for every other          *)
(* requested variant it raises a type-mismatch error and builds or         *)
(* converts no record of another variant.                                  *)
C17_NarrowingIffSameVariant ==
    (AsTypeApplied /\ input.target_type \in RecordClasses) =>
        /\ TypeOf(input.self) = input.target_type =>
               output.err = "" /\ output.val = input.self
        /\ TypeOf(input.self) # input.target_type =>
               output.err = "TypeError" /\ output.val = None

(* a full author asked for as a short author: TypeError, no short author *)
C17_Witness ==
    /\ AsTypeApplied
    /\ TypeOf(input.self) = "Author"
    /\ input.target_type = "AuthorShort"
    /\ output.err = "TypeError"
    /\ output.val = None

----------------------------------------------------------------------------
(* Decoding of a raw paged response: record, collection, envelope *)

NextEntry == [rel |-> Rel_NEXT, href |-> LinkNextTo(50)]

PagedInputs ==
    {[shape |-> "list", target_type |-> "AuthorShort", res |-> [payload |-> d, rels |-> rs]] :
        d \in DictLists, rs \in {<<>>, <<NextEntry>>}}
    \cup
    {[shape |-> "item", target_type |-> "Challenge", res |-> [payload |-> d, rels |-> rs]] :
        d \in ChallengeWire, rs \in {<<>>, <<NextEntry>>}}
    \cup
    {[shape |-> "item", target_type |-> "Author",
      res |-> [payload |-> d, rels |-> <<NextEntry>>]] : d \in AuthorWire}

InitPaged ==
    /\ call = "from_pagedresults"
    /\ input \in PagedInputs
    /\ output = None
    /\ TravIdle

ApplyPaged ==
    /\ call = "from_pagedresults"
    /\ output = None
    /\ output' = IF input.shape = "item"
                 THEN from_pagedresult_decoded(
                          record_from_dict(input.target_type, input.res.payload),
                          input.res.rels)
                 ELSE from_pagedresults(input.res, input.target_type)
    /\ UNCHANGED <<call, input>>
    /\ UNCHANGED travVars

SpecPaged == InitPaged /\ [][ApplyPaged]_vars

PagedApplied == call = "from_pagedresults" /\ output # None

(* some element of a wire collection does not decode as cls *)
SomeUndecodable(cls, vals) ==
    \E i \in 1..Len(vals) : nested_from_dict(cls, vals[i]).err # ""

ShortAuthorFlawed(data) ==
    \/ ~HasKey(data, "id_auteur")
    \/ ~HasKey(data, "nom")
    \/ parse_int(data["id_auteur"]).err # ""

(* a required field of the full challenge is missing, one of its scalars   *)
(* or enum codes is refused, or a record nested in it does not decode      *)
ChallengeFlawed(data) ==
    \/ DOMAIN RawChallenge \ DOMAIN data # {}
    \/ /\ DOMAIN RawChallenge \subseteq DOMAIN data
       /\ \/ parse_int(data["score"]).err # ""
          \/ parse_date(data["maj"]).err # ""
          \/ Difficulty_from_str(data["difficulte"]).err # ""
          \/ SomeUndecodable("AuthorShort", DictValues(data["auteurs"]))
          \/ SomeUndecodable("ValidationChallenge", DictValues(data["validations"]))

AuthorFlawed(data) ==
    \/ (DOMAIN RawAuthor \ {"rang"}) \ DOMAIN data # {}
    \/ /\ (DOMAIN RawAuthor \ {"rang"}) \subseteq DOMAIN data
       /\ \/ parse_int(data["score"]).err # ""
          \/ data["statut"] \notin AccountType
          \/ HasKey(data, "rang") /\ data["rang"] \notin Rank
          \/ SomeUndecodable("ChallengeVeryShort", data["challenges"])
          \/ SomeUndecodable("Solution", data["solutions"])
          \/ SomeUndecodable("ValidationAuthor", data["validations"])

PayloadFlawed ==
    IF input.shape = "list"
    THEN \E i \in 1..Len(input.res.payload) : ShortAuthorFlawed(input.res.payload[i][2])
    ELSE IF input.target_type = "Challenge" THEN ChallengeFlawed(input.res.payload)
    ELSE AuthorFlawed(input.res.payload)

(* C18: decoding is all-or-nothing: when a required field is missing or a  *)
(* scalar or enum coercion fails, in a record, in a record nested in it or *)
(* in an element of the keyed collection being decoded, the whole decode   *)
(* (record, collection, page envelope) raises and yields no record, no     *)
(* list with the bad element skipped and no envelope.                      *)
C18_AllOrNothing ==
    PagedApplied =>
        /\ PayloadFlawed => output.err # "" /\ output.page = None
        /\ (output.err = "" /\ input.shape = "list") =>
               Len(output.page.data) = Len(input.res.payload)
        /\ (output.err = "" /\ input.target_type = "Challenge") =>
               /\ Len(output.page.data.auteurs) = Len(input.res.payload.auteurs)
               /\ Len(output.page.data.validations) = Len(input.res.payload.validations)

(* three keys whose second value has a non-integer id: no envelope, not a  *)
(* list of the two good records                                            *)
C18_Witness ==
    /\ PagedApplied
    /\ input.shape = "list"
    /\ Len(input.res.payload) = 3
    /\ input.res.payload[1][2] = RawAda
    /\ input.res.payload[2][2] = RawBadId
    /\ input.res.payload[3][2] = RawBob
    /\ output.err = "ValueError"
    /\ output.page = None

----------------------------------------------------------------------------
(* Sign of the traversal cursor *)

(* C20: the derived Traversal Cursor is a non-negative integer: for every  *)
(* rel link get_rel_start returns an integer >= 0 or fails, never a        *)
(* negative offset (as for a link carrying debut_x=-5).                    *)
C20_Original ==
    (CursorApplied /\ output.err = "" /\ ~output.none) => output.val >= 0

(* what the code does: the cursor is the int() of the one valued debut_    *)
(* parameter, of either sign                                               *)
C20_CursorIsParsedValue ==
    (CursorApplied /\ CursorLinkPresent /\ output.err = ""
        /\ Len(ValuedPrefixParams(input.self.rels[input.rel])) = 1) =>
        output.val = PyInt(ValuedPrefixParams(input.self.rels[input.rel])[1][2]).val

(* a link whose only debut_ parameter is -5 gave the cursor -5 *)
C20_NegativeCursor ==
    /\ CursorApplied
    /\ CursorLinkPresent
    /\ ValuedPrefixParams(input.self.rels[input.rel]) = <<<<Str_debut_a, <<"-", "5">>>>>>
    /\ output.err = ""
    /\ output.val = 0 - 5

----------------------------------------------------------------------------
(* A paged-list response decoded and its cursors read *)

Str_debut_challenges == debut_ \o <<"c", "h", "a", "l", "l", "e", "n", "g", "e", "s">>

(* <base>/challenges?debut_challenges=n *)
LinkChallengesAt(n) == ApiLink(Path_challenges, <<<<Str_debut_challenges, IntToStr(n)>>>>)

ListPageHrefs == {LinkChallengesAt(20), LinkChallengesAt(0), ApiLink(Path_challenges, <<>>)}

(* keyed collections of up to two keys *)
ListPagePayloads ==
    {d \in SeqsUpTo({<<k, v>> : k \in DictKeys, v \in {RawAda, RawBob}}, 2) :
        \A i, j \in 1..Len(d) : i # j => d[i][1] # d[j][1]}

(* raw paged-list responses with at most one rel-link entry *)
ListPageInputs ==
    {[res |-> [payload |-> d, rels |-> rs]] :
        d \in ListPagePayloads,
        rs \in {<<>>} \cup {<<[rel |-> r, href |-> u]>> : r \in RelTypes, u \in ListPageHrefs}}

InitListPage ==
    /\ call = "from_pagedresults"
    /\ input \in ListPageInputs
    /\ output = None
    /\ TravIdle

(* PagedList.from_pagedresults on the response *)
DecodeListPage ==
    /\ call = "from_pagedresults"
    /\ output = None
    /\ output' = from_pagedresults(input.res, "AuthorShort")
    /\ UNCHANGED <<call, input>>
    /\ UNCHANGED travVars

(* next_start / prev_start of the envelope the decode returned *)
ReadCursor ==
    /\ call = "from_pagedresults"
    /\ output # None
    /\ output.err = ""
    /\ \E r \in RelTypes :
        /\ call' = "get_rel_start"
        /\ input' = [res |-> input.res, self |-> output.page, rel |-> r]
        /\ output' = get_rel_start(output.page, r)
    /\ UNCHANGED travVars

SpecListPage == InitListPage /\ [][DecodeListPage \/ ReadCursor]_vars

(* the response of the scenario: keys "1" and "3", one next entry to      *)
(* <base>/challenges?debut_challenges=20                                   *)
ScenarioResponse ==
    /\ Len(input.res.payload) = 2
    /\ input.res.payload[1][1] = <<"1">>
    /\ input.res.payload[2][1] = <<"3">>
    /\ input.res.rels = <<[rel |-> Rel_NEXT, href |-> LinkChallengesAt(20)]>>

(* C21: a raw paged-list response whose keyed collection has the keys "1"  *)
(* and "3" and whose single rel-link entry is {rel: next, href:            *)
(* <base>/challenges?debut_challenges=20} decodes to a List Envelope of    *)
(* length 2, the records in key order "1" then "3", whose next link is     *)
(* that href and whose next-cursor is 20, with no previous link and the    *)
(* previous-cursor absent.                                                 *)
C21_Scenario ==
    ScenarioResponse =>
        /\ (call = "from_pagedresults" /\ output # None) =>
               /\ output.err = ""
               /\ output.page.shape = "list"
               /\ Len(output.page.data) = 2
               /\ output.page.data[1] = AuthorShort_from_dict(input.res.payload[1][2]).rec
               /\ output.page.data[2] = AuthorShort_from_dict(input.res.payload[2][2]).rec
               /\ DOMAIN output.page.rels = {Rel_NEXT}
               /\ output.page.rels[Rel_NEXT] = LinkChallengesAt(20)
        /\ (call = "get_rel_start" /\ input.rel = Rel_NEXT) =>
               output.err = "" /\ ~output.none /\ output.val = 20
        /\ (call = "get_rel_start" /\ input.rel = Rel_PREV) =>
               output.err = "" /\ output.none

(* the next-cursor of the scenario's envelope, read as 20; the two records *)
(* differ, Ada under "1" and Bob under "3"                                 *)
C21_Witness ==
    /\ ScenarioResponse
    /\ input.res.payload[1][2] = RawAda
    /\ input.res.payload[2][2] = RawBob
    /\ call = "get_rel_start"
    /\ input.rel = Rel_NEXT
    /\ input.self.data = <<RecAda, RecBob>>
    /\ output.val = 20

----------------------------------------------------------------------------
(* Two traversals advanced in any interleaving *)

Traversals == {1, 2}

(* a single generator frame that every traversal keeps its page in *)
Frame_shared(t) == 1

(* the generator frame in which traversal t keeps its local paged_item /   *)
(* paged_list: each call of a driver creates its own generator             *)
Frame(t) == t

(* the remote APIs whose list pages are all full *)
FullServers(shape) ==
    {srv \in Servers(shape) :
        \A k \in DOMAIN srv : shape = "list" => Len(srv[k].payload) = MaxItems}

InitTwo ==
    /\ PureIdle
    /\ \E shape \in {"item", "list"} :
        /\ server \in FullServers(shape)
        /\ op \in OpsFor(shape) \cap IterPagesOps
        /\ variant = "AuthorShort"
        /\ \E s1, s2 \in DOMAIN server :
            /\ s1 <= s2
            /\ FirstPage(shape, server[s1], variant).err = ""
            /\ FirstPage(shape, server[s2], variant).err = ""
            /\ start = <<FirstPage(shape, server[s1], variant).page,
                         FirstPage(shape, server[s2], variant).page>>
    /\ cur = start
    /\ pc = [t \in Traversals |-> "Start"]
    /\ elemIdx = 0
    /\ inflight = [t \in Traversals |-> {}]
    /\ pulls = [t \in Traversals |-> 0]
    /\ fetched = [t \in Traversals |-> <<>>]
    /\ yielded = [t \in Traversals |-> <<>>]
    /\ elems = <<>>
    /\ result = None

(* iter_item_pages / iter_list_pages of traversal t, from its consumer's   *)
(* request to the next suspension                                          *)
iter_pages_resume_of(t) ==
    /\ pc[t] \in {"Start", "Suspended"}
    /\ Len(fetched[t]) < MaxFetches
    /\ pulls' = [pulls EXCEPT ![t] = @ + 1]
    /\ IF pc[t] = "Start"
       THEN /\ yielded' = [yielded EXCEPT ![t] = Append(@, cur[Frame(t)])]
            /\ pc' = [pc EXCEPT ![t] = "Suspended"]
            /\ UNCHANGED <<inflight, fetched>>
       ELSE LET r == get_rel_page_request(cur[Frame(t)], Rel_NEXT)
            IN  /\ UNCHANGED yielded
                /\ IF r.kind = "none"
                   THEN pc' = [pc EXCEPT ![t] = "Exhausted"] /\ UNCHANGED <<inflight, fetched>>
                   ELSE IF r.kind = "raise"
                   THEN pc' = [pc EXCEPT ![t] = "Failed"] /\ UNCHANGED <<inflight, fetched>>
                   ELSE /\ pc' = [pc EXCEPT ![t] = "Fetching"]
                        /\ inflight' = [inflight EXCEPT ![t] = @ \cup {r.req}]
                        /\ fetched' = [fetched EXCEPT ![t] = Append(@, r.req)]
    /\ UNCHANGED <<server, op, start, variant, cur, elemIdx, elems, result>>
    /\ UNCHANGED pureVars

(* traversal t when the API answers its request: decode, rebind the local  *)
(* variable, yield the new page                                            *)
iter_pages_fetched_of(t) ==
    /\ pc[t] = "Fetching"
    /\ \E req \in inflight[t] :
        LET d == get_rel_page_decode(cur[Frame(t)], ServerRespond(server, req))
        IN  /\ inflight' = [inflight EXCEPT ![t] = @ \ {req}]
            /\ IF d.err # ""
               THEN pc' = [pc EXCEPT ![t] = "Failed"] /\ UNCHANGED <<cur, yielded>>
               ELSE /\ cur' = [cur EXCEPT ![Frame(t)] = d.page]
                    /\ yielded' = [yielded EXCEPT ![t] = Append(@, d.page)]
                    /\ pc' = [pc EXCEPT ![t] = "Suspended"]
    /\ UNCHANGED <<server, op, start, variant, elemIdx, pulls, fetched, elems, result>>
    /\ UNCHANGED pureVars

NextTwo == \E t \in Traversals : iter_pages_resume_of(t) \/ iter_pages_fetched_of(t)

SpecTwo == InitTwo /\ [][NextTwo]_vars

(* what a traversal started on env yields when it runs alone and is pulled *)
(* until it ends or has made fuel fetches                                  *)
RECURSIVE SoloRun(_, _)
SoloRun(env, fuel) ==
    LET r == get_rel_page_request(env, Rel_NEXT)
    IN  IF r.kind = "none" THEN [pages |-> <<env>>, end |-> "Exhausted"]
        ELSE IF r.kind = "raise" THEN [pages |-> <<env>>, end |-> "Failed"]
        ELSE IF fuel = 0 THEN [pages |-> <<env>>, end |-> "Suspended"]
        ELSE LET d == get_rel_page_decode(env, ServerRespond(server, r.req))
             IN  IF d.err # "" THEN [pages |-> <<env>>, end |-> "Failed"]
                 ELSE LET rest == SoloRun(d.page, fuel - 1)
                      IN  [pages |-> <<env>> \o rest.pages, end |-> rest.end]

(* traversal t is where it would be alone after the same number of pulls *)
AsAlone(t) ==
    LET solo == SoloRun(start[t], MaxFetches)
    IN  /\ IsPrefix(yielded[t], solo.pages)
        /\ pc[t] \in {"Exhausted", "Failed"} =>
               /\ pc[t] = solo.end
               /\ yielded[t] = solo.pages
        /\ pc[t] = "Suspended" => cur[t] = yielded[t][Len(yielded[t])]

(* a step of traversal t leaves the other traversal as it was *)
OthersUntouched ==
    \A t \in Traversals :
        (pulls'[t] # pulls[t] \/ inflight'[t] # inflight[t]) =>
            \A o \in Traversals \ {t} :
                /\ cur'[o] = cur[o]
                /\ pc'[o] = pc[o]
                /\ yielded'[o] = yielded[o]
                /\ fetched'[o] = fetched[o]
                /\ inflight'[o] = inflight[o]

(* C22: traversal instances share no mutable state: two traversals started *)
(* from the same envelope or from different ones and advanced in any       *)
(* interleaving each yield exactly the page sequence they would yield when *)
(* run alone, and advancing one never changes the position or the output   *)
(* of the other.                                                           *)
C22_Independent == [](\A t \in Traversals : AsAlone(t)) /\ [][OthersUntouched]_vars

(* two traversals started from the same first page of a three-page chain:  *)
(* the first has ended after its three pages while the second still holds  *)
(* page 1                                                                  *)
C22_Witness ==
    /\ pc \in [Traversals -> STRING]
    /\ start[1] = start[2]
    /\ pc[1] = "Exhausted"
    /\ Len(yielded[1]) = 3
    /\ pc[2] = "Suspended"
    /\ yielded[2] = <<start[2]>>
    /\ cur[2] = start[2]

----------------------------------------------------------------------------
(* Envelopes in the hands of a consumer *)

(* the read operations a consumer can apply to an envelope it holds *)
ReadCalls(env) ==
    {[name |-> n, rel |-> r] : n \in {"rel", "get_rel_start"}, r \in RelTypes}
    \cup (IF env.shape = "list"
          THEN {[name |-> "getitem", index |-> i] : i \in {0 - 1, 0, MaxItems}}
               \cup {[name |-> "getitem_slice", a |-> a, b |-> b] :
                        a \in {0, 1}, b \in {0 - 1, MaxItems}}
          ELSE {})

(* one of these operations applied to self: its return value, and self as  *)
(* the operation leaves it                                                 *)
PagedData_call(self, c) ==
    IF c.name = "rel" THEN [ret |-> rel(self, c.rel), self |-> self]
    ELSE IF c.name = "get_rel_start" THEN [ret |-> get_rel_start(self, c.rel), self |-> self]
    ELSE IF c.name = "getitem" THEN [ret |-> PagedList_getitem(self, c.index), self |-> self]
    ELSE IF c.name = "len" THEN [ret |-> PagedList_len(self), self |-> self]
    ELSE IF c.name = "contains" THEN [ret |-> PagedList_contains(self, c.value), self |-> self]
    ELSE IF c.name = "iter" THEN [ret |-> PagedList_iter(self), self |-> self]
    ELSE IF c.name = "reversed" THEN [ret |-> PagedList_reversed(self), self |-> self]
    ELSE PagedList_getitem_slice(self, c.a, c.b)

InitFrame ==
    /\ PureIdle
    /\ \E shape \in {"item", "list"} :
        /\ server \in FullServers(shape)
        /\ op \in OpsFor(shape)
        /\ variant = "AuthorShort"
        /\ \E s \in DOMAIN server :
            /\ FirstPage(shape, server[s], variant).err = ""
            /\ start = FirstPage(shape, server[s], variant).page
    /\ cur = start
    /\ pc = "Start"
    /\ elemIdx = 1
    /\ inflight = {}
    /\ pulls = 0
    /\ fetched = <<>>
    /\ yielded = <<>>
    /\ elems = <<>>
    /\ result = None

(* the consumer applies a read operation to the k-th envelope it was       *)
(* yielded; the envelope it holds afterwards is self as the call left it   *)
envelope_read ==
    /\ call = "none"
    /\ \E k \in 1..Len(yielded) :
        \E c \in ReadCalls(yielded[k]) :
            /\ call' = c.name
            /\ input' = [self |-> yielded[k], at |-> k, args |-> c]
            /\ output' = PagedData_call(yielded[k], c)
            /\ yielded' = [yielded EXCEPT ![k] = PagedData_call(yielded[k], c).self]
    /\ UNCHANGED <<server, op, start, variant, cur, pc, elemIdx, inflight, pulls, fetched,
                   elems, result>>

NextFrame == Next \/ envelope_read

SpecFrame == InitFrame /\ [][NextFrame]_vars

(* what a step leaves as it was *)
EnvelopesKept ==
    /\ start' = start
    /\ Len(yielded') >= Len(yielded)
    /\ \A i \in 1..Len(yielded) : yielded'[i] = yielded[i]
    /\ op \in CallOps => cur' = cur
    /\ call' # call => output'.self = input'.self

(* C23: an envelope is never mutated after construction: rel lookup,       *)
(* cursor extraction, indexed access, slicing, following a rel link and    *)
(* page or record traversal leave the payload and the Rel-Link Set of the  *)
(* envelope they were applied to, and of every envelope already yielded,   *)
(* unchanged.                                                              *)
C23_NeverMutated == [][EnvelopesKept]_vars

(* the first of two yielded list pages was sliced to a proper sub-range    *)
(* and is still the envelope it was when the traversal has ended           *)
C23_Witness ==
    /\ call = "getitem_slice"
    /\ input.at = 1
    /\ Len(yielded) >= 2
    /\ pc = "Exhausted"
    /\ Len(output.ret.data) = 1
    /\ Len(input.self.data) = 2
    /\ yielded[1] = input.self
    /\ yielded[1].rels = output.ret.rels

----------------------------------------------------------------------------
(* The request sent for a rel link *)

FollowLinks == {ApiLink(Path_auteurs, q) : q \in SeqsUpTo(QueryParams, MaxQuery)}

FollowInputs ==
    {[self |-> PagedList(<<RecAda>>, RelsDict(<<[rel |-> d, href |-> u]>>, NoRels)),
      rel |-> r] : d \in RelTypes, u \in FollowLinks, r \in RelTypes}

InitFollow ==
    /\ call = "get_rel_page"
    /\ input \in FollowInputs
    /\ output = None
    /\ TravIdle

(* RootMeAPI.get_rel_page up to the call of api *)
ApplyFollow ==
    /\ call = "get_rel_page"
    /\ output = None
    /\ output' = get_rel_page_request(input.self, input.rel)
    /\ UNCHANGED <<call, input>>
    /\ UNCHANGED travVars

SpecFollow == InitFollow /\ [][ApplyFollow]_vars

(* get_rel_page was applied to an envelope with a link in the direction *)
FollowApplied == call = "get_rel_page" /\ output # None /\ input.rel \in DOMAIN input.self.rels

(* the key=value pairs of a request, each with the number of times it is sent *)
RequestPairs(req) ==
    {<<req.params[i][1], req.params[i][2][j]>> :
        <<i, j>> \in UNION {{<<i, j>> : j \in 1..Len(req.params[i][2])} :
                               i \in 1..Len(req.params)}}

RECURSIVE RequestSize(_)
RequestSize(params) ==
    IF params = <<>> THEN 0 ELSE Len(Head(params)[2]) + RequestSize(Tail(params))

(* the request carries exactly the parameters ps *)
SendsExactly(req, ps) ==
    /\ RequestPairs(req) = {ps[i] : i \in 1..Len(ps)}
    /\ RequestSize(req.params) = Len(ps)

(* the parameters of a link that carry a value *)
ValuedParams(url) == SelectSeq(url.query, LAMBDA p : p[2] # <<>>)

(* C24, as claimed: when a validated rel link is followed the fetch        *)
(* capability is called once with endpoint = the link's path without its   *)
(* leading slash and query = the link's query with every parameter of the  *)
(* link preserved and nothing added; the client's default language is not  *)
(* injected.                                                               *)
C24_Original ==
    FollowApplied =>
        /\ output.kind = "fetch"
        /\ <<"/">> \o output.req.endpoint = input.self.rels[input.rel].path
        /\ SendsExactly(output.req, input.self.rels[input.rel].query)

(* what the code does: the parameters of the link that carry a value are   *)
(* sent, each as often as the link has it, and nothing else; a parameter   *)
(* with a blank value is left out of the request                           *)
C24_ValuedParamsSent ==
    FollowApplied =>
        /\ output.kind = "fetch"
        /\ <<"/">> \o output.req.endpoint = input.self.rels[input.rel].path
        /\ SendsExactly(output.req, ValuedParams(input.self.rels[input.rel]))

(* a link ...?lang=&debut_a=20 followed with the request debut_a=20 *)
C24_BlankDropped ==
    /\ FollowApplied
    /\ input.self.rels[input.rel].query = <<<<Str_lang, <<>>>>, <<Str_debut_a, <<"2", "0">>>>>>
    /\ output.req.params = <<<<Str_debut_a, <<(<<"2", "0">>)>>>>>>

----------------------------------------------------------------------------
(* Nested collections *)

(* a second wire element of each nested variant, with a field the variant  *)
(* does not declare                                                        *)
RawVeryShortMore ==
    [id_challenge |-> <<"1", "0">>, titre |-> Text_plain, url_challenge |-> "/d",
     rubrique |-> "Web"]
RawSolutionMore == [id_solution |-> <<"1">>, url_solution |-> "/t", auteur |-> "Bob"]
RawValidationAuthorMore ==
    [id_challenge |-> <<"1", "0">>, titre |-> Text_escaped, id_rubrique |-> <<"1", "8">>,
     date |-> Date_day, score |-> <<"5">>]
RawValidationChallengeMore == [id_auteur |-> <<"4", "2">>, date |-> Date_ok, nom |-> "Ada"]
RawBobMore == [id_auteur |-> <<"7">>, nom |-> "Bob", score |-> <<"5">>]

(* the keys of the TypedDict of each record class *)
DeclaredFields(cls) ==
    IF cls = "AuthorShort" THEN {"id_auteur", "nom"}
    ELSE IF cls = "Solution" THEN {"id_solution", "url_solution"}
    ELSE IF cls = "ChallengeVeryShort" THEN {"id_challenge", "titre", "url_challenge"}
    ELSE IF cls = "ValidationAuthor" THEN {"id_challenge", "titre", "id_rubrique", "date"}
    ELSE IF cls = "ValidationChallenge" THEN {"id_auteur", "date"}
    ELSE IF cls = "Author" THEN DOMAIN RawAuthor
    ELSE DOMAIN RawChallenge

(* keyed collections of the elements of S: keys "0", "1", ... in either    *)
(* order                                                                   *)
KeyedUpTo(S, n) ==
    UNION {{[i \in 1..Len(vs) |-> <<IntToStr(IF up THEN i - 1 ELSE Len(vs) - i), vs[i]>>] :
                vs \in SeqsUpTo(S, n)} : up \in BOOLEAN}

NestedInputs ==
    {[cls |-> "Author",
      data |-> [id_auteur |-> <<"7">>, nom |-> "Ada", statut |-> "5pre",
                logo_url |-> "/l.png", score |-> <<"1", "0">>, position |-> JInt(3),
                rang |-> "hacker", membre |-> "true",
                challenges |-> ch, solutions |-> so, validations |-> va]] :
        ch \in SeqsUpTo({RawVeryShort, RawVeryShortMore}, MaxNested),
        so \in SeqsUpTo({RawSolution, RawSolutionMore}, MaxNested),
        va \in SeqsUpTo({RawValidationAuthor, RawValidationAuthorMore}, MaxNested)}
    \cup
    {[cls |-> "Challenge",
      data |-> With(With(RawChallenge, "auteurs", au), "validations", va)] :
        au \in KeyedUpTo({RawAda, RawBobMore}, MaxNested),
        va \in KeyedUpTo({RawValidationChallenge, RawValidationChallengeMore}, MaxNested)}

InitNested ==
    /\ call = "from_dict"
    /\ input \in NestedInputs \cup
                 {[cls |-> i.cls, data |-> With(i.data, "pays", "fr")] : i \in NestedInputs}
    /\ output = None
    /\ TravIdle

(* Author.from_dict / Challenge.from_dict *)
ApplyNested ==
    /\ call = "from_dict"
    /\ output = None
    /\ output' = record_from_dict(input.cls, input.data)
    /\ UNCHANGED <<call, input>>
    /\ UNCHANGED travVars

SpecNested == InitNested /\ [][ApplyNested]_vars

NestedApplied == call = "from_dict" /\ output # None

(* a mapping cut down to the fields its variant declares *)
Restrict(cls, data) == [f \in (DOMAIN data) \cap DeclaredFields(cls) |-> data[f]]

(* recs is, element by element and in order, the decode of wire as cls     *)
(* from the declared fields alone                                          *)
DecodedInOrder(cls, wire, recs) ==
    /\ Len(recs) = Len(wire)
    /\ \A i \in 1..Len(wire) : recs[i] = nested_from_dict(cls, Restrict(cls, wire[i])).rec

(* C25: nested collections are decoded recursively in source order: a full *)
(* author's challenges, solutions and validations and a full challenge's   *)
(* authors and validations each decode to a list of the length of the wire *)
(* collection whose i-th record is the decode of the i-th wire element,    *)
(* and wire fields the variant does not declare have no influence on the   *)
(* decoded record.                                                         *)
C25_NestedInOrder ==
    NestedApplied =>
        /\ output.err = ""
        /\ output = record_from_dict(input.cls, Restrict(input.cls, input.data))
        /\ input.cls = "Author" =>
               /\ DecodedInOrder("ChallengeVeryShort", input.data.challenges,
                                 output.rec.challenges)
               /\ DecodedInOrder("Solution", input.data.solutions, output.rec.solutions)
               /\ DecodedInOrder("ValidationAuthor", input.data.validations,
                                 output.rec.validations)
        /\ input.cls = "Challenge" =>
               /\ DecodedInOrder("AuthorShort", DictValues(input.data.auteurs),
                                 output.rec.auteurs)
               /\ DecodedInOrder("ValidationChallenge", DictValues(input.data.validations),
                                 output.rec.validations)

(* a challenge whose authors arrive under the keys "1", "0" in that order, *)
(* Bob (with an undeclared score) before Ada, and which has an undeclared  *)
(* field of its own                                                        *)
C25_Witness ==
    /\ NestedApplied
    /\ input.cls = "Challenge"
    /\ HasKey(input.data, "pays")
    /\ input.data.auteurs = <<<<<<"1">>, RawBobMore>>, <<<<"0">>, RawAda>>>>
    /\ output.err = ""
    /\ output.rec.auteurs = <<RecBob, RecAda>>

----------------------------------------------------------------------------
(* A list envelope used as a sequence *)

(* a solution record with the id of RecAda: equal to no short author *)
RecSol == Solution_from_dict([id_solution |-> <<"4", "2">>, url_solution |-> "Ada"]).rec

SequenceCalls ==
    {[name |-> n] : n \in {"len", "iter", "reversed"}}
    \cup {[name |-> "getitem", index |-> i] : i \in (0 - MaxDict - 1)..(MaxDict + 1)}
    \cup {[name |-> "contains", value |-> v] : v \in {RecAda, RecBob, RecSol}}

SequenceInputs ==
    {[self |-> PagedList(items, rels), args |-> c] :
        items \in SeqsUpTo({RecAda, RecBob}, MaxDict), rels \in SliceRels, c \in SequenceCalls}

InitSequence ==
    /\ call = "sequence"
    /\ input \in SequenceInputs
    /\ output = None
    /\ TravIdle

(* len(env), env[i], value in env, list(env), list(reversed(env)) *)
ApplySequence ==
    /\ call = "sequence"
    /\ output = None
    /\ output' = PagedData_call(input.self, input.args)
    /\ UNCHANGED <<call, input>>
    /\ UNCHANGED travVars

SpecSequence == InitSequence /\ [][ApplySequence]_vars

SequenceApplied(name) == call = "sequence" /\ output # None /\ input.args.name = name

(* C26: a List Envelope behaves as a read-only ordered sequence over its   *)
(* items: its length is the number of records, indexed access at i returns *)
(* the i-th record, membership is true exactly for the records equal to    *)
(* one of the items, forward iteration yields the items in order and       *)
(* reverse iteration yields them in exactly the reversed order; none of    *)
(* these operations changes the items or the links.                        *)
C26_ReadOnlySequence ==
    LET items == input.self.data
        n == Len(input.self.data)
    IN  /\ (call = "sequence" /\ output # None) => output.self = input.self
        /\ SequenceApplied("len") => output.ret = n
        /\ (SequenceApplied("getitem") /\ input.args.index \in 0..(n - 1)) =>
               output.ret.err = "" /\ output.ret.val = items[input.args.index + 1]
        /\ SequenceApplied("contains") =>
               (output.ret <=> \E i \in 1..n : items[i] = input.args.value)
        /\ SequenceApplied("iter") => output.ret = items
        /\ SequenceApplied("reversed") =>
               /\ Len(output.ret) = n
               /\ \A j \in 1..n : output.ret[j] = items[n + 1 - j]

(* reverse iteration over Ada, Ada, Bob on a page with both links: Bob     *)
(* comes first                                                             *)
C26_Witness ==
    /\ SequenceApplied("reversed")
    /\ input.self.data = <<RecAda, RecAda, RecBob>>
    /\ DOMAIN input.self.rels = RelTypes
    /\ output.ret = <<RecBob, RecAda, RecAda>>
    /\ output.self = input.self

----------------------------------------------------------------------------
(* A link followed from a list page without records *)

(* a list envelope without records whose link in direction r is accepted *)
EmptyWithLink(env, r) ==
    /\ env.shape = "list"
    /\ env.data = <<>>
    /\ r \in DOMAIN env.rels
    /\ ~OutsideApi(env.rels[r])

(* C27: following a rel link from a List Envelope that holds no record but *)
(* carries a valid link in that direction does not return a page: the      *)
(* fetch is issued and then the operation fails, the payload variant being *)
(* taken from a first record that does not exist; a traversal that reaches *)
(* an empty page with a next link ends in Failed, it neither continues nor *)
(* reaches Exhausted.                                                      *)
C27_EmptyPageFails ==
    /\ (op \in CallOps /\ EmptyWithLink(start, RelOf(op)) /\ pc \in {"Returned", "Raised"}) =>
           /\ pc = "Raised"
           /\ result.err = "IndexError"
           /\ result.page = None
           /\ fetched = <<RequestFor(start.rels[RelOf(op)])>>
    /\ op \in IterOps =>
           \A i \in 1..Len(yielded) :
               EmptyWithLink(yielded[i], Rel_NEXT) =>
                   /\ i = Len(yielded)
                   /\ pc # "Exhausted"
                   /\ Len(fetched) <= i
                   /\ Len(fetched) = i =>
                          /\ pc \in {"Fetching", "Failed"}
                          /\ fetched[i] = RequestFor(yielded[i].rels[Rel_NEXT])
                   /\ pc = "Failed" => Len(fetched) = i /\ inflight = {}

(* a page traversal that failed on its second page, an empty page with a   *)
(* next link to a third page that exists, after the fetch for that page    *)
C27_Witness ==
    /\ op = "iter_list_pages"
    /\ Len(yielded) = 2
    /\ EmptyWithLink(yielded[2], Rel_NEXT)
    /\ LinkTarget(yielded[2].rels[Rel_NEXT]) \in DOMAIN server
    /\ Len(fetched) = 2
    /\ pc = "Failed"

----------------------------------------------------------------------------
(* Cycles of next links *)

InitCycle ==
    /\ PureIdle
    /\ \E shape \in {"item", "list"} :
        /\ server \in FullServers(shape)
        /\ op \in OpsFor(shape) \cap IterPagesOps
        /\ variant = "AuthorShort"
        /\ \E s \in DOMAIN server :
            /\ FirstPage(shape, server[s], variant).err = ""
            /\ start = FirstPage(shape, server[s], variant).page
    /\ cur = start
    /\ pc = "Start"
    /\ elemIdx = 1
    /\ inflight = {}
    /\ pulls = 0
    /\ fetched = <<>>
    /\ yielded = <<>>
    /\ elems = <<>>
    /\ result = None

NextPages == iter_pages_resume \/ iter_pages_fetched

(* the traversal can take a step: its consumer may pull within the fetch    *)
(* budget, or a request is waiting for its answer                          *)
PagesEnabled ==
    \/ op \in IterPagesOps /\ pc \in {"Start", "Suspended"} /\ Len(fetched) < MaxFetches
    \/ op \in IterPagesOps /\ pc = "Fetching" /\ inflight # {}

(* a consumer that keeps pulling, and an API that answers every request:   *)
(* WF_vars(NextPages), with ENABLED <<NextPages>>_vars written out as      *)
(* PagesEnabled                                                            *)
KeepsPulling == []<>(~PagesEnabled) \/ []<><<NextPages>>_vars

SpecCycle == InitCycle /\ [][NextPages]_vars /\ KeepsPulling

(* n links can be followed from env, one after the other *)
RECURSIVE Walk(_, _)
Walk(env, n) ==
    \/ n = 0
    \/ /\ FollowableLink(env, Rel_NEXT)
       /\ env.shape = "list" => env.data # <<>>
       /\ Walk(PageBehind(env, Rel_NEXT).page, n - 1)

(* the next links from the starting page lead round a cycle: more links    *)
(* can be followed than the API has pages                                  *)
CycleAhead == Walk(start, MaxFetches)

(* the consumer has pulled after the last page it was yielded *)
PulledAgain == yielded # <<>> /\ pulls > Len(yielded)

NoVisitedRecord ==
    /\ pc = "Exhausted" <=>
           (PulledAgain /\ Rel_NEXT \notin DOMAIN yielded[Len(yielded)].rels)
    /\ \A i \in 1..(Len(yielded) - 1) :
           /\ FollowableLink(yielded[i], Rel_NEXT)
           /\ yielded[i + 1] = PageBehind(yielded[i], Rel_NEXT).page
    /\ Len(fetched) >= Len(yielded) - 1
    /\ CycleAhead => pc \notin {"Exhausted", "Failed"}

(* the traversal has used up the fetches its consumer allows *)
BudgetSpent == Len(fetched) = MaxFetches /\ Len(yielded) = MaxFetches + 1

(* C28: the traversal keeps no record of visited pages and detects no      *)
(* cycle: it reaches Exhausted if and only if the chain of next links it   *)
(* walks reaches a page without a next link; when the next links form a    *)
(* cycle, a page linking to itself included, a consumer that keeps pulling *)
(* is yielded pages for as long as it pulls, revisited pages being yielded *)
(* again.                                                                  *)
C28_NoCycleDetection == []NoVisitedRecord /\ (CycleAhead ~> BudgetSpent)

(* a page whose next link leads back to itself, yielded three times *)
C28_Witness ==
    /\ op \in IterPagesOps
    /\ Len(yielded) = 3
    /\ yielded[1] = yielded[2]
    /\ yielded[2] = yielded[3]
    /\ Len(fetched) = 2
    /\ pc = "Suspended"
    /\ CycleAhead

----------------------------------------------------------------------------
(* Looking an author up by name (api.py: get_authors, iter_authors,        *)
(* get_author, get_author_by_name)                                         *)

Str_nom == <<"n", "o", "m">>
Endpoint_auteurs == LStripSlash(Path_auteurs)

(* RootMeAPI.get_authors(name=name) up to the await: params["nom"] = name, *)
(* use_default_lang=False; the query nom=name is written the way parse_qs  *)
(* writes one, each key with the list of its values                        *)
get_authors_request(name) == api(Endpoint_auteurs, <<<<Str_nom, <<name>>>>>>)

(* RootMeAPI.get_author(author) up to the await: the id of a short author, *)
(* f"auteurs/{author}", the client's default language added                *)
get_author_request(author) ==
    api_default_lang(Endpoint_auteurs \o <<"/">> \o IntToStr(author.id_auteur), <<>>)

(* a scan that stops at the last element of the page named name *)
RECURSIVE FirstNamed_last(_, _, _)
FirstNamed_last(data, name, i) ==
    IF i > Len(data) THEN 0
    ELSE IF FirstNamed_last(data, name, i + 1) # 0 THEN FirstNamed_last(data, name, i + 1)
    ELSE IF data[i].nom = name THEN i
    ELSE 0

(* async for author in ...: if author.nom == name: the index of the first  *)
(* element from i on that the loop stops at, 0 when it runs off the page   *)
RECURSIVE FirstNamed(_, _, _)
FirstNamed(data, name, i) ==
    IF i > Len(data) THEN 0
    ELSE IF data[i].nom = name THEN i
    ELSE FirstNamed(data, name, i + 1)

(* the search results the API holds for a name: the authors at the         *)
(* positions of hits carry the name, the others a name that differs in     *)
(* case or altogether                                                      *)

Positions == {<<k, i>> : k \in 1..MaxPages, i \in 1..MaxItems}

HitSets == {h \in SUBSET Positions : Cardinality(h) <= 2}

NamedResponse(n, lens, fault, hits, k) ==
    [payload |->
        [i \in 1..lens[k] |->
            <<IntToStr(i - 1),
              [id_auteur |-> IntToStr(10 * k + i),
               nom |-> IF <<k, i>> \in hits THEN "Ada"
                       ELSE IF (k + i) % 2 = 0 THEN "ada" ELSE "Bob"]>>],
     rels |-> PageRels("list", n, fault, k)]

NamedServers ==
    {[k \in 1..n |-> NamedResponse(n, lens, fault, hits, k)] :
        <<n, lens, fault, hits>> \in
            UNION {{n} \X [1..n -> PageLens]
                       \X {NoFault, [at |-> n, kind |-> "cycle", to |-> 1]}
                       \X HitSets : n \in 1..MaxPages}}

InitByName ==
    /\ call = "none"
    /\ input = [name |-> "Ada"]
    /\ output = None
    /\ server \in NamedServers
    /\ op = "get_author_by_name"
    /\ start = None
    /\ variant = "AuthorShort"
    /\ cur = None
    /\ pc = "Start"
    /\ elemIdx = 1
    /\ inflight = {}
    /\ pulls = 0
    /\ fetched = <<>>
    /\ yielded = <<>>
    /\ elems = <<>>
    /\ result = None

(* get_author_by_name up to its first await, inside get_authors *)
get_author_by_name_call ==
    /\ op = "get_author_by_name"
    /\ pc = "Start"
    /\ pc' = "Fetching"
    /\ inflight' = {get_authors_request(input.name)}
    /\ fetched' = Append(fetched, get_authors_request(input.name))
    /\ UNCHANGED <<server, op, start, variant, cur, elemIdx, pulls, yielded, elems, result>>
    /\ UNCHANGED pureVars

(* get_author_by_name when a page of results arrives: the page is decoded  *)
(* (by get_authors the first time, by get_rel_page afterwards), its        *)
(* elements are compared in order, and the coroutine runs to its next      *)
(* await or to its return                                                  *)
get_author_by_name_page ==
    /\ op = "get_author_by_name"
    /\ pc = "Fetching"
    /\ Len(fetched) < MaxFetches
    /\ \E req \in inflight :
        LET res == ServerRespond(server, req)
            d == IF cur = None THEN from_pagedresults(res, "AuthorShort")
                 ELSE get_rel_page_decode(cur, res)
        IN  IF d.err # ""
            THEN /\ pc' = "Raised"
                 /\ result' = [err |-> d.err, val |-> None]
                 /\ inflight' = {}
                 /\ UNCHANGED <<cur, yielded, elems, fetched>>
            ELSE LET hit == FirstNamed(d.page.data, input.name, 1)
                     r == get_rel_page_request(d.page, Rel_NEXT)
                 IN  /\ cur' = d.page
                     /\ yielded' = Append(yielded, d.page)
                     /\ IF hit # 0
                        THEN /\ elems' = elems \o SubSeq(d.page.data, 1, hit)
                             /\ pc' = "FetchingAuthor"
                             /\ inflight' = {get_author_request(d.page.data[hit])}
                             /\ fetched' = Append(fetched, get_author_request(d.page.data[hit]))
                             /\ UNCHANGED result
                        ELSE /\ elems' = elems \o d.page.data
                             /\ IF r.kind = "fetch"
                                THEN /\ pc' = "Fetching"
                                     /\ inflight' = {r.req}
                                     /\ fetched' = Append(fetched, r.req)
                                     /\ UNCHANGED result
                                ELSE /\ pc' = IF r.kind = "none" THEN "Returned" ELSE "Raised"
                                     /\ result' = [err |-> r.err, val |-> None]
                                     /\ inflight' = {}
                                     /\ UNCHANGED fetched
    /\ UNCHANGED <<server, op, start, variant, elemIdx, pulls>>
    /\ UNCHANGED pureVars

(* the API's answer to auteurs/{id}: the full author it lists under that   *)
(* id, or a record that does not decode                                    *)
FullAuthorRespond(srv, req, ok) ==
    LET id == SubSeq(req.endpoint, Len(Endpoint_auteurs) + 2, Len(req.endpoint))
        listed == {w \in UNION {{srv[k].payload[i][2] : i \in DOMAIN srv[k].payload} :
                                    k \in DOMAIN srv} : w.id_auteur = id}
    IN  IF ok /\ listed # {}
        THEN [RawAuthor EXCEPT !.id_auteur = id, !.nom = (CHOOSE w \in listed : TRUE).nom]
        ELSE RawBad

(* get_author_by_name when the full author arrives: Author.from_dict(res)  *)
(* is returned                                                             *)
get_author_by_name_author ==
    /\ op = "get_author_by_name"
    /\ pc = "FetchingAuthor"
    /\ \E req \in inflight, ok \in BOOLEAN :
        LET d == record_from_dict("Author", FullAuthorRespond(server, req, ok))
        IN  /\ inflight' = {}
            /\ result' = [err |-> d.err, val |-> d.rec]
            /\ pc' = IF d.err # "" THEN "Raised" ELSE "Returned"
    /\ UNCHANGED <<server, op, start, variant, cur, elemIdx, pulls, fetched, yielded, elems>>
    /\ UNCHANGED pureVars

NextByName ==
    \/ get_author_by_name_call
    \/ get_author_by_name_page
    \/ get_author_by_name_author

SpecByName == InitByName /\ [][NextByName]_vars

(* an examined short author carries the name asked for *)
ByNameMatched == \E i \in 1..Len(elems) : elems[i].nom = input.name

(* the requests for pages of results among the requests sent *)
ResultFetches == SelectSeq(fetched, LAMBDA q : q.endpoint = Endpoint_auteurs)

(* C29: get_author_by_name(name) walks the author search results in        *)
(* traversal order and returns the full author of the first short author   *)
(* whose name equals name exactly; once that match is found no further     *)
(* page of results is fetched, only the one full-author request follows;   *)
(* it returns none only after the traversal is exhausted without a match.  *)
C29_FirstExactMatch ==
    op = "get_author_by_name" =>
        /\ yielded # <<>> => yielded[1] = FirstPage("list", server[1], "AuthorShort").page
        /\ \A i \in 1..(Len(yielded) - 1) :
               /\ FollowableLink(yielded[i], Rel_NEXT)
               /\ yielded[i + 1] = PageBehind(yielded[i], Rel_NEXT).page
        /\ IsPrefix(elems, Flatten(yielded))
        /\ \A i \in 1..(Len(elems) - 1) : elems[i].nom # input.name
        /\ ByNameMatched =>
               /\ pc \in {"FetchingAuthor", "Returned", "Raised"}
               /\ Len(ResultFetches) = Len(yielded)
               /\ fetched = ResultFetches \o <<get_author_request(elems[Len(elems)])>>
               /\ inflight \subseteq {get_author_request(elems[Len(elems)])}
               /\ pc = "Returned" =>
                      /\ result.val # None
                      /\ result.val.variant = "Author"
                      /\ result.val.id_auteur = elems[Len(elems)].id_auteur
                      /\ result.val.nom = input.name
        /\ ~ByNameMatched =>
               /\ fetched = ResultFetches
               /\ elems = Flatten(yielded)
               /\ pc = "Returned" =>
                      /\ result.val = None
                      /\ yielded # <<>>
                      /\ Rel_NEXT \notin DOMAIN yielded[Len(yielded)].rels

(* the name is first met on the second of three pages, after a name that   *)
(* differs in case only; the third page lists the name again and is never  *)
(* asked for                                                               *)
C29_Witness ==
    /\ op = "get_author_by_name"
    /\ pc = "Returned"
    /\ result.val # None
    /\ Len(server) = 3
    /\ \E i \in DOMAIN server[3].payload : server[3].payload[i][2].nom = input.name
    /\ Len(yielded) = 2
    /\ Len(fetched) = 3
    /\ \E i \in 1..Len(elems) : elems[i].nom = "ada"
    /\ Len(elems) < Len(Flatten(yielded))

----------------------------------------------------------------------------
(* The validations of a challenge (api.py: get_challenge,                  *)
(* iter_challenge_validations)                                             *)

Str_debut_validations == debut_ \o <<"v", "a", "l", "i", "d", "a", "t", "i", "o", "n", "s">>
Endpoint_challenges == LStripSlash(Path_challenges)

(* get_challenge sending its request whatever start is given *)
get_challenge_request_no_start(challenge, first) ==
    api_default_lang(Endpoint_challenges \o <<"/">> \o IntToStr(challenge), <<>>)

(* RootMeAPI.get_challenge(challenge, start) up to the await, challenge an *)
(* id: params["debut_validations"] = str(start) when start is given, the   *)
(* client's default language added                                         *)
get_challenge_request(challenge, first) ==
    api_default_lang(Endpoint_challenges \o <<"/">> \o IntToStr(challenge),
                     IF first = None THEN <<>>
                     ELSE <<<<Str_debut_validations, <<IntToStr(first.int)>>>>>>)

(* PagedItem.from_pagedresult(res, Challenge), in get_challenge and, for   *)
(* an envelope that holds a Challenge, in get_rel_page                     *)
Challenge_from_pagedresult(res) ==
    from_pagedresult_decoded(record_from_dict("Challenge", res.payload), res.rels)

(* the wire validation i of page k of a challenge *)
RawValidationAt(k, i) == [id_auteur |-> IntToStr(10 * k + i), date |-> Date_day]

(* page k of a challenge of n pages of validations *)
ChallengeResponse(n, lens, fault, k) ==
    [payload |->
        [RawChallenge EXCEPT !.validations =
            [i \in 1..lens[k] |->
                <<IntToStr(i - 1),
                  IF fault.at = k /\ fault.kind = "bad_record" /\ i = lens[k]
                  THEN RawValidationChallengeBad ELSE RawValidationAt(k, i)>>]],
     rels |-> PageRels("item", n, fault, k)]

ChallengeFaults(n) ==
    {NoFault, [at |-> n, kind |-> "cycle", to |-> 1], [at |-> 1, kind |-> "foreign", to |-> 0]}
    \cup {[at |-> k, kind |-> "bad_record", to |-> 0] : k \in 1..n}

(* the pages are full, but for one that may hold one validation or none *)
ChallengeLens(n) ==
    {[k \in 1..n |-> IF k = e THEN l ELSE MaxItems] : e \in 1..n, l \in PageLens}

ChallengeServers ==
    {[k \in 1..n |-> ChallengeResponse(n, lens, fault, k)] :
        <<n, lens, fault>> \in
            {<<n, lens, fault>> \in
                UNION {{n} \X ChallengeLens(n) \X ChallengeFaults(n) : n \in 1..MaxPages} :
                fault.kind = "bad_record" => lens[fault.at] > 0}}

(* the ways a challenge is handed to iter_challenge_validations *)
GivenKinds == {"envelope", "record", "short", "id"}

(* the start arguments tried: none, or the cursor of the second page *)
StartArgs == {None, JInt(2)}

InitValidations ==
    /\ call = "none"
    /\ output = None
    /\ server \in ChallengeServers
    /\ op = "iter_challenge_validations"
    /\ \E given \in GivenKinds, arg \in StartArgs :
        /\ input = [given |-> given, start |-> arg]
        /\ IF given = "id" THEN start = JInt(5)
           ELSE IF given = "short" THEN start = ChallengeVeryShort_from_dict(RawVeryShort).rec
           ELSE \E s \in DOMAIN server :
                   /\ Challenge_from_pagedresult(server[s]).err = ""
                   /\ start = IF given = "envelope"
                             THEN Challenge_from_pagedresult(server[s]).page
                             ELSE Challenge_from_pagedresult(server[s]).page.data
    /\ variant = "Challenge"
    /\ cur = None
    /\ pc = "Start"
    /\ elemIdx = 1
    /\ inflight = {}
    /\ pulls = 0
    /\ fetched = <<>>
    /\ yielded = <<>>
    /\ elems = <<>>
    /\ result = None

(* for validation in chall.validations: yield validation; when the page is *)
(* used up iter_item_pages is resumed and awaits get_next_page             *)
NextValidation(page, idx) ==
    IF idx <= Len(page.data.validations)
    THEN /\ elems' = Append(elems, page.data.validations[idx])
         /\ elemIdx' = idx + 1
         /\ pc' = "Suspended"
         /\ UNCHANGED <<inflight, fetched>>
    ELSE /\ AwaitNextPage(page)
         /\ UNCHANGED <<elems, elemIdx>>

(* iter_challenge_validations from its first resumption: an envelope is    *)
(* taken as it is, a decoded challenge is wrapped by PagedItem(challenge)  *)
(* (rels None, so {}), a short record gives its id and the id is fetched   *)
(* through get_challenge(challenge, start=start)                           *)
StartValidations ==
    IF input.given \in {"envelope", "record"}
    THEN LET page == IF input.given = "envelope" THEN start ELSE PagedItem(start, NoRels)
         IN  /\ cur' = page
             /\ yielded' = Append(yielded, page)
             /\ NextValidation(page, 1)
    ELSE LET id == IF input.given = "short" THEN start.id_challenge ELSE start.int
             req == get_challenge_request(id, input.start)
         IN  /\ pc' = "Fetching"
             /\ inflight' = {req}
             /\ fetched' = Append(fetched, req)
             /\ UNCHANGED <<cur, yielded, elems, elemIdx>>

(* iter_challenge_validations, from the consumer's request to the next     *)
(* suspension                                                              *)
iter_challenge_validations_resume ==
    /\ op = "iter_challenge_validations"
    /\ pc \in {"Start", "Suspended"}
    /\ Len(fetched) < MaxFetches
    /\ pulls' = pulls + 1
    /\ IF pc = "Start" THEN StartValidations
       ELSE NextValidation(cur, elemIdx) /\ UNCHANGED <<cur, yielded>>
    /\ UNCHANGED <<server, op, start, variant, result>>
    /\ UNCHANGED pureVars

(* iter_challenge_validations when the API answers: get_challenge or       *)
(* get_rel_page decodes the page of the challenge, iter_item_pages yields  *)
(* it and the loop over its validations starts                             *)
iter_challenge_validations_fetched ==
    /\ op = "iter_challenge_validations"
    /\ pc = "Fetching"
    /\ Len(fetched) < MaxFetches
    /\ \E req \in inflight :
        LET d == Challenge_from_pagedresult(ServerRespond(server, req))
        IN  IF d.err # ""
            THEN /\ pc' = "Failed"
                 /\ inflight' = {}
                 /\ UNCHANGED <<cur, yielded, elems, elemIdx, fetched>>
            ELSE /\ cur' = d.page
                 /\ yielded' = Append(yielded, d.page)
                 /\ IF d.page.data.validations # <<>>
                    THEN /\ elems' = Append(elems, d.page.data.validations[1])
                         /\ elemIdx' = 2
                         /\ pc' = "Suspended"
                         /\ inflight' = {}
                         /\ UNCHANGED fetched
                    ELSE LET r == get_rel_page_request(d.page, Rel_NEXT)
                         IN  /\ UNCHANGED <<elems, elemIdx>>
                             /\ IF r.kind = "fetch"
                                THEN /\ pc' = "Fetching"
                                     /\ inflight' = {r.req}
                                     /\ fetched' = Append(fetched, r.req)
                                ELSE /\ pc' = IF r.kind = "none" THEN "Exhausted" ELSE "Failed"
                                     /\ inflight' = {}
                                     /\ UNCHANGED fetched
    /\ UNCHANGED <<server, op, start, variant, pulls, result>>
    /\ UNCHANGED pureVars

NextValidations == iter_challenge_validations_resume \/ iter_challenge_validations_fetched

SpecValidations == InitValidations /\ [][NextValidations]_vars

(* the validations of a sequence of challenge pages, page after page *)
RECURSIVE ValidationsOf(_)
ValidationsOf(pages) ==
    IF pages = <<>> THEN <<>>
    ELSE Head(pages).data.validations \o ValidationsOf(Tail(pages))

(* the envelope the page behind env's next link decodes to *)
ChallengeBehind(env) ==
    Challenge_from_pagedresult(server[LinkTarget(env.rels[Rel_NEXT])])

FollowableChallengeLink(env) ==
    /\ Rel_NEXT \in DOMAIN env.rels
    /\ ApiAuthority(env.rels[Rel_NEXT])
    /\ LinkTarget(env.rels[Rel_NEXT]) \in DOMAIN server
    /\ ChallengeBehind(env).err = ""

(* the debut_validations parameters of a request *)
StartParams(req) == SelectSeq(req.params, LAMBDA p : p[1] = Str_debut_validations)

(* the page of the API a first request with the given start asks for *)
FirstAsked(arg) == IF arg = None THEN 1 ELSE arg.int

(* C30: iter_challenge_validations yields the validations of every visited *)
(* challenge page, page by page in traversal order and in the order within *)
(* the page; given an already decoded full challenge it wraps it with an   *)
(* empty set of rel links, yields exactly that record's validations and    *)
(* sends no request; the start argument has an effect only when the        *)
(* challenge is given by id or by a short record.                          *)
C30_ValidationsInOrder ==
    op = "iter_challenge_validations" =>
        /\ IsPrefix(elems, ValidationsOf(yielded))
        /\ yielded # <<>> =>
               IsPrefix(ValidationsOf(SubSeq(yielded, 1, Len(yielded) - 1)), elems)
        /\ \A i \in 1..(Len(yielded) - 1) :
               /\ FollowableChallengeLink(yielded[i])
               /\ yielded[i + 1] = ChallengeBehind(yielded[i]).page
        /\ pc = "Exhausted" =>
               /\ elems = ValidationsOf(yielded)
               /\ Rel_NEXT \notin DOMAIN yielded[Len(yielded)].rels
        /\ input.given = "record" =>
               /\ fetched = <<>> /\ inflight = {}
               /\ pc \in {"Start", "Suspended", "Exhausted"}
               /\ yielded # <<>> => yielded = <<PagedItem(start, NoRels)>>
               /\ IsPrefix(elems, start.validations)
               /\ pc = "Exhausted" => elems = start.validations
        /\ input.given = "envelope" =>
               /\ yielded # <<>> => yielded[1] = start
               /\ Len(fetched) <= Len(yielded)
               /\ \A i \in 1..Len(fetched) :
                      fetched[i] = RequestFor(yielded[i].rels[Rel_NEXT])
        /\ input.given \in {"id", "short"} =>
               /\ pc # "Start" =>
                      /\ fetched # <<>>
                      /\ StartParams(fetched[1]) =
                             IF input.start = None THEN <<>>
                             ELSE <<<<Str_debut_validations, <<IntToStr(input.start.int)>>>>>>
               /\ yielded # <<>> =>
                      yielded[1] = Challenge_from_pagedresult(
                                       server[FirstAsked(input.start)]).page
               /\ Len(fetched) <= Len(yielded) + 1
               /\ \A i \in 2..Len(fetched) :
                      fetched[i] = RequestFor(yielded[i - 1].rels[Rel_NEXT])

(* a decoded challenge, taken from a page of the API that has a next link, *)
(* given with a start: its two validations were yielded and the traversal  *)
(* ended without a request                                                 *)
C30_Witness ==
    /\ op = "iter_challenge_validations"
    /\ input.given = "record"
    /\ input.start # None
    /\ \E s \in DOMAIN server :
           /\ Challenge_from_pagedresult(server[s]).err = ""
           /\ Challenge_from_pagedresult(server[s]).page.data = start
           /\ Rel_NEXT \in DOMAIN Challenge_from_pagedresult(server[s]).page.rels
    /\ pc = "Exhausted"
    /\ Len(elems) = 2
    /\ elems = start.validations
    /\ fetched = <<>>

====
